---- MODULE Spec2Model ----
(***************************************************************************)
(* A model of the cost-of-living cleaning script                           *)
(* (projects/cost-of-living/src/02_data_cleaning.py): the date-token       *)
(* normaliser parse_ons_date, the cleaning of one ONS timeseries file      *)
(* around it, and the merge of the cleaned series on the date.             *)
(*                                                                         *)
(* Python strings are TLA+ strings, read character by character with       *)
(* SubSeq.  A Python value that is "a str or None" is a record             *)
(* [kind, val]: kind "str" carries the string in val, kind "None" is None, *)
(* kind "raise" is an exception that left the function.                    *)
(***************************************************************************)
EXTENDS Integers, Sequences, FiniteSets, TLC

(***************************************************************************)
(* Bounds of the model.                                                    *)
(***************************************************************************)
\* The longest run of blanks put before, after and between the words.
MaxPad == 1
\* The years of the tokens are FirstYear .. FirstYear + NumYears - 1.
FirstYear == 2023
NumYears == 2
\* The most rows a raw file holds, and how many entries of ons_files,
\* from the first one on, are processed.
MaxRows == 2
MaxFiles == 2
\* How many entries of FTSE_100_TICKERS, from the first one on, are fetched.
MaxTickers == 3
\* The most rows the loaded Price Paid table holds.
MaxHouseRows == 2
\* The most rows the table a dashboard filters holds.
MaxDashRows == 2

(***************************************************************************)
(* Python's str operations.                                                *)
(***************************************************************************)
Char(s, i) == SubSeq(s, i, i)

\* The characters str.strip() and str.split() treat as whitespace.
IsSpace(c) == c \in {" ", "\t", "\n"}

RECURSIVE LStrip(_)
LStrip(s) ==
    IF Len(s) > 0 /\ IsSpace(Char(s, 1))
    THEN LStrip(SubSeq(s, 2, Len(s)))
    ELSE s

RECURSIVE RStrip(_)
RStrip(s) ==
    IF Len(s) > 0 /\ IsSpace(Char(s, Len(s)))
    THEN RStrip(SubSeq(s, 1, Len(s) - 1))
    ELSE s

\* str.strip()
Strip(s) == RStrip(LStrip(s))

\* The length of the first word of a string that starts with a word.
RECURSIVE WordLen(_)
WordLen(s) ==
    IF Len(s) = 0 \/ IsSpace(Char(s, 1))
    THEN 0
    ELSE 1 + WordLen(SubSeq(s, 2, Len(s)))

\* str.split() with no argument: the words between runs of whitespace.
RECURSIVE Split(_)
Split(s) ==
    LET t == LStrip(s)
        n == WordLen(t)
    IN  IF t = "" THEN <<>>
        ELSE <<SubSeq(t, 1, n)>> \o Split(SubSeq(t, n + 1, Len(t)))

LowerLetters == "abcdefghijklmnopqrstuvwxyz"
UpperLetters == "ABCDEFGHIJKLMNOPQRSTUVWXYZ"

IndexIn(c, letters) ==
    IF \E i \in 1..Len(letters) : Char(letters, i) = c
    THEN CHOOSE i \in 1..Len(letters) : Char(letters, i) = c
    ELSE 0

UpperChar(c) ==
    IF IndexIn(c, LowerLetters) > 0
    THEN Char(UpperLetters, IndexIn(c, LowerLetters))
    ELSE c

LowerChar(c) ==
    IF IndexIn(c, UpperLetters) > 0
    THEN Char(LowerLetters, IndexIn(c, UpperLetters))
    ELSE c

\* A faulty upper() that leaves the string as it is.
UpperForgotten(s) == s

\* str.upper()
RECURSIVE Upper(_)
Upper(s) ==
    IF s = "" THEN ""
    ELSE UpperChar(Char(s, 1)) \o Upper(SubSeq(s, 2, Len(s)))

\* str.lower()
RECURSIVE Lower(_)
Lower(s) ==
    IF s = "" THEN ""
    ELSE LowerChar(Char(s, 1)) \o Lower(SubSeq(s, 2, Len(s)))

Digits == "0123456789"
IsDigit(c) == IndexIn(c, Digits) > 0
IsDigits(s) == Len(s) > 0 /\ \A i \in 1..Len(s) : IsDigit(Char(s, i))

\* int() of a string of decimal digits.
RECURSIVE ParseNat(_)
ParseNat(s) ==
    IF s = "" THEN 0
    ELSE 10 * ParseNat(SubSeq(s, 1, Len(s) - 1))
         + (IndexIn(Char(s, Len(s)), Digits) - 1)

\* The decimal digits of n, zero-padded to the width w (%Y, %m, %d).
RECURSIVE Pad(_, _)
Pad(n, w) ==
    IF w = 0 THEN ""
    ELSE Pad(n \div 10, w - 1) \o Char(Digits, (n % 10) + 1)

(***************************************************************************)
(* Values: "a str or None" of Python, and the timestamps of pandas.        *)
(***************************************************************************)
Str(v) == [kind |-> "str", val |-> v]
None == [kind |-> "None", val |-> ""]
\* An exception that is not caught and leaves the function.
Raised == [kind |-> "raise", val |-> ""]

Ts(y, m, d) == [kind |-> "ts", y |-> y, m |-> m, d |-> d]
NaT == [kind |-> "NaT", y |-> 0, m |-> 0, d |-> 0]
\* pd.to_datetime raising (DateParseError, OutOfBoundsDatetime, ...).
ParseError == [kind |-> "error", y |-> 0, m |-> 0, d |-> 0]

(***************************************************************************)
(* pd.to_datetime of one string, on the forms the tokens of this model     *)
(* take: the strings pandas reads as missing, a bare year, an ISO-like     *)
(* date with "-" or "/" between its fields, a year followed by a month     *)
(* name; anything else of the model's tokens is no date and raises.        *)
(***************************************************************************)
nat_strings == {"", "NaT", "nat", "NAT", "nan", "NaN", "NAN"}

IsLeap(y) == (y % 4 = 0 /\ y % 100 # 0) \/ y % 400 = 0

DaysIn(y, m) ==
    IF m = 2 THEN (IF IsLeap(y) THEN 29 ELSE 28)
    ELSE IF m \in {4, 6, 9, 11} THEN 30 ELSE 31

\* The month names the generic parser knows, lower-cased, by month number.
MonthNames ==
    << {"jan", "january"}, {"feb", "february"}, {"mar", "march"},
       {"apr", "april"}, {"may"}, {"jun", "june"}, {"jul", "july"},
       {"aug", "august"}, {"sep", "sept", "september"},
       {"oct", "october"}, {"nov", "november"}, {"dec", "december"} >>

MonthOfName(w) ==
    IF \E m \in 1..12 : Lower(w) \in MonthNames[m]
    THEN CHOOSE m \in 1..12 : Lower(w) \in MonthNames[m]
    ELSE 0

IsIsoLike(s) ==
    /\ Len(s) = 10
    /\ IsDigits(SubSeq(s, 1, 4))
    /\ Char(s, 5) \in {"-", "/"}
    /\ IsDigits(SubSeq(s, 6, 7))
    /\ Char(s, 8) = Char(s, 5)
    /\ IsDigits(SubSeq(s, 9, 10))

ValidDate(y, m, d) ==
    /\ y >= 1
    /\ m \in 1..12
    /\ d >= 1
    /\ d <= DaysIn(y, m)

ToDatetime(s) ==
    LET w == Split(s)
    IN  IF s \in nat_strings THEN NaT
        ELSE IF Len(s) = 4 /\ IsDigits(s) /\ ParseNat(s) >= 1
        THEN Ts(ParseNat(s), 1, 1)
        ELSE IF IsIsoLike(s)
        THEN LET y == ParseNat(SubSeq(s, 1, 4))
                 m == ParseNat(SubSeq(s, 6, 7))
                 d == ParseNat(SubSeq(s, 9, 10))
             IN  IF ValidDate(y, m, d) THEN Ts(y, m, d) ELSE ParseError
        ELSE IF /\ Len(w) = 2
                /\ Len(w[1]) = 4
                /\ IsDigits(w[1])
                /\ ParseNat(w[1]) >= 1
                /\ MonthOfName(w[2]) > 0
        THEN Ts(ParseNat(w[1]), MonthOfName(w[2]), 1)
        ELSE ParseError

\* A faulty formatting that forces the day to 1, as the table path does.
StrftimeFirstOfMonth(ts) ==
    IF ts.kind = "ts"
    THEN Str(Pad(ts.y, 4) \o "-" \o Pad(ts.m, 2) \o "-01")
    ELSE Raised

\* Timestamp.strftime('%Y-%m-%d'); NaT.strftime raises ValueError.
Strftime(ts) ==
    IF ts.kind = "ts"
    THEN Str(Pad(ts.y, 4) \o "-" \o Pad(ts.m, 2) \o "-" \o Pad(ts.d, 2))
    ELSE Raised

(***************************************************************************)
(* parse_ons_date, piece by piece.                                         *)
(***************************************************************************)
\* A faulty table that maps a quarter to its first month and SEP to 08.
month_map_wrong ==
    ("JAN" :> "01") @@ ("FEB" :> "02") @@ ("MAR" :> "03") @@ ("APR" :> "04") @@
    ("MAY" :> "05") @@ ("JUN" :> "06") @@ ("JUL" :> "07") @@ ("AUG" :> "08") @@
    ("SEP" :> "08") @@ ("OCT" :> "10") @@ ("NOV" :> "11") @@ ("DEC" :> "12") @@
    ("Q1" :> "01") @@ ("Q2" :> "04") @@ ("Q3" :> "07") @@ ("Q4" :> "10")

month_map ==
    ("JAN" :> "01") @@ ("FEB" :> "02") @@ ("MAR" :> "03") @@ ("APR" :> "04") @@
    ("MAY" :> "05") @@ ("JUN" :> "06") @@ ("JUL" :> "07") @@ ("AUG" :> "08") @@
    ("SEP" :> "09") @@ ("OCT" :> "10") @@ ("NOV" :> "11") @@ ("DEC" :> "12") @@
    ("Q1" :> "03") @@ ("Q2" :> "06") @@ ("Q3" :> "09") @@ ("Q4" :> "12")

\* A faulty test that takes the first two words of a longer input too.
AtLeastTwoWords(ds) == Len(Split(ds)) >= 2

\* len(date_str.split()) == 2
TwoWords(ds) == Len(Split(ds)) = 2

\* parts[1].upper()
MonthStr(ds) == Upper(Split(ds)[2])

\* month_str in month_map
InTable(ds) == MonthStr(ds) \in DOMAIN month_map

\* A faulty result that leaves the day out.
TableResultNoDay(ds) == Str(Split(ds)[1] \o "-" \o month_map[MonthStr(ds)])

\* f"{year}-{month_map[month_str]}-01"
TableResult(ds) == Str(Split(ds)[1] \o "-" \o month_map[MonthStr(ds)] \o "-01")

\* pd.to_datetime(date_str).strftime('%Y-%m-%d'): a string, or an exception.
GenericParse(ds) ==
    LET ts == ToDatetime(ds)
    IN  IF ts.kind = "error" THEN Raised ELSE Strftime(ts)

\* A faulty handler that lets the exception go on to the caller.
ExceptReraise == Raised

\* except: return None
ExceptHandler == None

\* parse_ons_date as a function of its argument.
ParseOnsDate(token) ==
    LET ds == Strip(token)
    IN  IF TwoWords(ds) /\ InTable(ds)
        THEN TableResult(ds)
        ELSE LET r == GenericParse(ds)
             IN  IF r.kind = "raise" THEN ExceptHandler ELSE r

(***************************************************************************)
(* The date tokens the model feeds to parse_ons_date: words around which   *)
(* blanks are put, the second word in any letter case.                     *)
(***************************************************************************)
RECURSIVE Blanks(_)
Blanks(n) == IF n = 0 THEN "" ELSE " " \o Blanks(n - 1)

Pads == {Blanks(n) : n \in 0..MaxPad} \cup {"\t"}
Seps == {Blanks(n) : n \in 1..MaxPad} \cup {"\t"}

YearNumbers == FirstYear..(FirstYear + NumYears - 1)
Years == {Pad(y, 4) : y \in YearNumbers}

MonthAbbrs ==
    << "JAN", "FEB", "MAR", "APR", "MAY", "JUN",
       "JUL", "AUG", "SEP", "OCT", "NOV", "DEC" >>
QuarterCodes == << "Q1", "Q2", "Q3", "Q4" >>

\* Every way of writing the letters of s in upper or lower case.
RECURSIVE Casings(_)
Casings(s) ==
    IF s = "" THEN {""}
    ELSE {c \o r : c \in {UpperChar(Char(s, 1)), LowerChar(Char(s, 1))},
                   r \in Casings(SubSeq(s, 2, Len(s)))}

Capitalized(s) == Char(s, 1) \o Lower(SubSeq(s, 2, Len(s)))

\* The letter cases a second word is given in: all of them for a short
\* word, upper, lower and capitalised for a long one.
Recasings(w) ==
    IF Len(w) <= 3 THEN Casings(w) ELSE {w, Lower(w), Capitalized(w)}

\* Second words: the keys of the table, month names that are not keys,
\* and words that are neither.
SecondWords ==
    {MonthAbbrs[m] : m \in 1..12} \cup {QuarterCodes[q] : q \in 1..4}
    \cup {"JULY", "SEPT", "SEPTEMBER", "XYZ", "Q5"}

\* First words: years, and a word that is no year.
FirstWords == Years \cup {"abc"}

\* Tokens of one word: missing values, garbage, bare years, dates.
SingleWords ==
    {"", "nan", "garbage"} \cup Years
    \cup {y \o tail : y \in Years,
                      tail \in {"-07-15", "/07/15", "-01-01", "-02-29",
                                "-02-30", "-13-01"}}

WordLists ==
    {<<w>> : w \in SingleWords}
    \cup {<<y, w>> : y \in FirstWords, w \in SecondWords}
    \cup {<<"not", "A", "date">>}
    \cup {<<y, "JAN", "15">> : y \in Years}

\* The words with sep between them.
RECURSIVE Join(_, _)
Join(ws, sep) ==
    IF Len(ws) = 0 THEN ""
    ELSE IF Len(ws) = 1 THEN ws[1]
    ELSE ws[1] \o sep \o Join(Tail(ws), sep)

(***************************************************************************)
(* The state of one call of parse_ons_date.                                *)
(*   core      the token as written in the plain way: its words with one   *)
(*             blank between them, the second word in upper case           *)
(*   arg       the argument of the call: core with blanks around and       *)
(*             between its words and its second word in some letter case   *)
(*   date_str  the local variable of that name                             *)
(*   pc        where the call is: "call", "try", "lookup", "generic",      *)
(*             "except", "done"                                            *)
(*   ret       what the call returned, once pc = "done"                    *)
(*   tried     the strategies the call has attempted, in order             *)
(*   pass      1 for the call on the token, 2 for the call on its result   *)
(*   first     in pass 2, what pass 1 returned                             *)
(***************************************************************************)
VARIABLES core, arg, date_str, pc, ret, tried, pass, first

parseVars == <<core, arg, date_str, pc, ret, tried, pass, first>>

(***************************************************************************)
(* The state of one run of the cleaning script, main().                    *)
(*   fpc            where main() is: "files" (in process_ons_files),       *)
(*                  "merge" (before merge_cpi_data), "merged" (after it),  *)
(*                  "crashed" (an exception left main());                  *)
(*                  "idle" when no run is modelled                         *)
(*   idx            the entry of ons_files the loop is at                  *)
(*   raw            the rows of the file read last, as read_csv gave them  *)
(*   cleaned        what clean_ons_timeseries returned for that file       *)
(*   processed_dfs  the dict of that name: column name -> cleaned rows     *)
(*   merged         what merge_cpi_data returned                           *)
(***************************************************************************)
VARIABLES fpc, idx, raw, cleaned, processed_dfs, merged

cleanVars == <<fpc, idx, raw, cleaned, processed_dfs, merged>>

(***************************************************************************)
(* The state of the steps 3 to 8 of that run; fpc goes on from "merged"    *)
(* to "master", "derive", "database", "save", "summary" (the step that     *)
(* comes next), "done" (main() returned) or "crashed" (an exception left   *)
(* main()).                                                                *)
(*   generated_data  the dict of that name: dataset -> rows                *)
(*   master_cpi      the master table: a dataframe, or None                *)
(*   steps           the steps 3 to 8 that have returned, in order         *)
(*   db              the database step: how it ended ("none" before it,    *)
(*                   "ok", "error") and the tables it saved                *)
(*   written         the processed CSV files written by step 7             *)
(***************************************************************************)
VARIABLES generated_data, master_cpi, steps, db, written

mainVars == <<generated_data, master_cpi, steps, db, written>>

(***************************************************************************)
(* The state of one run of a fetch script (01_download_data.py of the      *)
(* cost-of-living and housing projects, 01_fetch_stock_data.py).           *)
(*   script     which script runs: "col", "housing", "ftse"; "none" when   *)
(*              no run is modelled                                         *)
(*   fetchpc    where its main() is: "loop" (over the remote resources),   *)
(*              "index" (fetch_ftse_index), "rest" (the steps after the    *)
(*              downloads), "done" (main() returned), "crashed" (an        *)
(*              exception left main())                                     *)
(*   fpos       the resource the loop is at                                *)
(*   requested  resource -> how many requests were issued for it           *)
(*   fetched    resource -> how its download ended: "none" (not reached),  *)
(*              "ok", "empty", "error", "exists" (already on disk)         *)
(*   synthetic  whether the generated sample data was written              *)
(***************************************************************************)
VARIABLES script, fetchpc, fpos, requested, fetched, synthetic

fetchVars == <<script, fetchpc, fpos, requested, fetched, synthetic>>

(***************************************************************************)
(* The state of one run of a script that starts by loading its input       *)
(* files (02_data_cleaning.py of the housing project, app.py of the        *)
(* cost-of-living project, 02_analysis.py of the FTSE project).            *)
(*   job        which script runs: "housing_clean", "col_app",             *)
(*              "ftse_analysis"; "none" when no run is modelled            *)
(*   present    the input files that exist when the script starts          *)
(*   jpc        where the script is: "load" (in its loading step), "run"   *)
(*              (in the steps after it), "stopped" (ended by the loading   *)
(*              step), "done" (ran to its end); "idle" when not modelled   *)
(*   message    what the stop showed to the user: "none" (nothing), or     *)
(*              the text                                                   *)
(*   performed  the later steps performed so far, in order                 *)
(***************************************************************************)
VARIABLES job, present, jpc, message, performed

loadVars == <<job, present, jpc, message, performed>>

(***************************************************************************)
(* The state of one call of clean_data of the housing cleaning script.     *)
(*   hpc   the statement of clean_data that comes next: "duplicates",      *)
(*         "date", "dropna", "outliers", "district", "derived", and        *)
(*         "returned" after its return; "idle" when no call is modelled    *)
(*   hraw  the argument: the rows load_london_data returned                *)
(*   hdf   the local df: its rows in order                                 *)
(***************************************************************************)
VARIABLES hpc, hraw, hdf

houseVars == <<hpc, hraw, hdf>>

(***************************************************************************)
(* The state of one session of a dashboard (app.py of the three projects). *)
(* Streamlit runs the script from top to bottom when the session starts    *)
(* and again after every change of a widget.                               *)
(*   dash        which dashboard: "housing", "col", "ftse"; "none" when    *)
(*               no session is modelled                                    *)
(*   tables      the loaded tables: name -> rows in order                  *)
(*   settings    the values of the filter widgets                          *)
(*   dataset     the dataset chosen in the data explorer (cost-of-living)  *)
(*   view        the filtered table of the last run of the script          *)
(*   csv         the data of the download button of the last run: a        *)
(*               dataframe, or None when the run shows no button           *)
(*   downloaded  the file the user got by clicking the button after the    *)
(*               last run: a dataframe, or None when there was no click    *)
(***************************************************************************)
VARIABLES dash, tables, settings, dataset, view, csv, downloaded

dashVars == <<dash, tables, settings, dataset, view, csv, downloaded>>

(***************************************************************************)
(* The state of one call of calculate_performance of the FTSE analysis     *)
(* script (projects/ftse-analysis/src/02_analysis.py).                     *)
(*   ppc          where the call is: "loop" (in the loop over the          *)
(*                tickers), "returned"; "idle" when no call is modelled    *)
(*   sdf          the argument df: the rows of the raw stock data in the   *)
(*                order of the file                                        *)
(*   pending      the tickers of df['Ticker'].unique() the loop has not    *)
(*                reached yet, in order                                    *)
(*   performance  the list of the dictionaries appended so far             *)
(***************************************************************************)
VARIABLES ppc, sdf, pending, performance

perfVars == <<ppc, sdf, pending, performance>>

(***************************************************************************)
(* The state of the housing pipeline from a yearly Price Paid file to the  *)
(* cleaned table: filter_london_data of 01_download_data.py, then          *)
(* clean_data of 02_data_cleaning.py on what it saved.                     *)
(*   pp   the rows of the yearly file pp-<year>.csv                        *)
(* The call of clean_data is kept in hpc, hraw, hdf; hpc is "filter"       *)
(* while filter_london_data has not run.                                   *)
(***************************************************************************)
VARIABLES pp

pipeVars == <<pp>>

(***************************************************************************)
(* The state of the housing download script (01_download_data.py) over     *)
(* its runs: the directory data/raw outlives a run.                        *)
(*   disk              year -> the file pp-<year>.csv in data/raw:         *)
(*                     "absent", "partial" (opened for writing, not all    *)
(*                     of the body written), "complete"                    *)
(*   dpc               where the run is: "download" (in the loop of        *)
(*                     download_all_years), "filter" (at the preview and   *)
(*                     the London filter), "done", "crashed" (an           *)
(*                     exception left main()); "idle" when not modelled    *)
(*   dpos              the year the loop is at                             *)
(*   downloaded_files  the list of download_all_years: the years whose     *)
(*                     filepath download_file returned, with how it        *)
(*                     returned it ("exists" or "downloaded")              *)
(*   passed_on         the files given to the preview and the filter so    *)
(*                     far, in all runs: [run, year, how, file]            *)
(*   runs              the number of the run                               *)
(***************************************************************************)
VARIABLES disk, dpc, dpos, downloaded_files, passed_on, runs

dlVars == <<disk, dpc, dpos, downloaded_files, passed_on, runs>>

(***************************************************************************)
(* The state of the housing cleaning script (02_data_cleaning.py) over     *)
(* its runs: the directory data/processed outlives a run.                  *)
(*   pdir     the file names of data/processed in the order os.listdir     *)
(*            gives them                                                   *)
(*   ksaved   the rows of london_housing_cleaned.csv                       *)
(*   kpc      where the run is: "load", "clean", "save", "done",           *)
(*            "crashed" (FileNotFoundError left main()); "idle" when not   *)
(*            modelled                                                     *)
(*   kfiles   the file names load_london_data read in this run, in order   *)
(*   kdf      the table of the run: what load_london_data returned, then   *)
(*            what clean_data returned                                     *)
(*   history  of each run that saved its CSV: [files, rows]                *)
(*   kruns    the number of the run                                        *)
(***************************************************************************)
VARIABLES pdir, ksaved, kpc, kfiles, kdf, history, kruns

rerunVars == <<pdir, ksaved, kpc, kfiles, kdf, history, kruns>>

(***************************************************************************)
(* The state of one call of calculate_derived_metrics of the               *)
(* cost-of-living cleaning script on a table that has the column           *)
(* cpi_annual.                                                             *)
(*   mpc  "called" before the call returns, "returned" after it; "idle"    *)
(*        when no call is modelled                                         *)
(*   mdf  the argument df, and after the return the table returned         *)
(***************************************************************************)
VARIABLES mpc, mdf

deriveVars == <<mpc, mdf>>

\* The variables of the parts of the model declared from here on.
laterVars == <<perfVars, pipeVars, dlVars, rerunVars, deriveVars>>

vars ==
    <<parseVars, cleanVars, mainVars, fetchVars, loadVars, houseVars, dashVars,
      laterVars>>

\* What an action of one part of the model leaves alone.
notParseVars ==
    <<cleanVars, mainVars, fetchVars, loadVars, houseVars, dashVars,
      laterVars>>
notCleanVars ==
    <<parseVars, mainVars, fetchVars, loadVars, houseVars, dashVars,
      laterVars>>
notFetchVars ==
    <<parseVars, cleanVars, mainVars, loadVars, houseVars, dashVars,
      laterVars>>
notLoadVars ==
    <<parseVars, cleanVars, mainVars, fetchVars, houseVars, dashVars,
      laterVars>>
notHouseVars ==
    <<parseVars, cleanVars, mainVars, fetchVars, loadVars, dashVars,
      laterVars>>
notDashVars ==
    <<parseVars, cleanVars, mainVars, fetchVars, loadVars, houseVars,
      laterVars>>

\* No call of the housing clean_data is modelled.
HouseIdle ==
    /\ hpc = "idle"
    /\ hraw = <<>>
    /\ hdf = <<>>

\* No run of a loading script is modelled.
LoadIdle ==
    /\ job = "none"
    /\ present = {}
    /\ jpc = "idle"
    /\ message = "none"
    /\ performed = <<>>

\* No call of parse_ons_date is modelled.
ParseIdle ==
    /\ core = ""
    /\ arg = ""
    /\ date_str = ""
    /\ pc = "idle"
    /\ ret = [kind |-> "None", val |-> ""]
    /\ tried = <<>>
    /\ pass = 0
    /\ first = [kind |-> "None", val |-> ""]

\* No run of a fetch script is modelled.
FetchIdle ==
    /\ script = "none"
    /\ fetchpc = "idle"
    /\ fpos = 0
    /\ requested = <<>>
    /\ fetched = <<>>
    /\ synthetic = FALSE

\* A dataframe: its rows in order; or None.
Df(rows) == [kind |-> "df", rows |-> rows]
NoDf == [kind |-> "None", rows |-> <<>>]

\* No run of main() is modelled.
CleanIdle ==
    /\ fpc = "idle"
    /\ idx = 0
    /\ raw = <<>>
    /\ cleaned = NoDf
    /\ processed_dfs = <<>>
    /\ merged = NoDf

\* The steps 3 to 8 of main() have not begun.
MainIdle ==
    /\ generated_data = <<>>
    /\ master_cpi = NoDf
    /\ steps = <<>>
    /\ db = [status |-> "none", tables |-> {}]
    /\ written = {}

\* No call of calculate_performance is modelled.
PerfIdle ==
    /\ ppc = "idle"
    /\ sdf = <<>>
    /\ pending = <<>>
    /\ performance = <<>>

\* No run of the housing pipeline is modelled.
PipeIdle ==
    /\ pp = <<>>

\* No run of the housing download script is modelled.
DlIdle ==
    /\ disk = <<>>
    /\ dpc = "idle"
    /\ dpos = 0
    /\ downloaded_files = <<>>
    /\ passed_on = {}
    /\ runs = 0

\* No run of the housing cleaning script is modelled.
RerunIdle ==
    /\ pdir = <<>>
    /\ ksaved = <<>>
    /\ kpc = "idle"
    /\ kfiles = <<>>
    /\ kdf = <<>>
    /\ history = <<>>
    /\ kruns = 0

\* No call of calculate_derived_metrics on its own is modelled.
DeriveIdle ==
    /\ mpc = "idle"
    /\ mdf = NoDf

LaterIdle ==
    /\ PerfIdle
    /\ PipeIdle
    /\ DlIdle
    /\ RerunIdle
    /\ DeriveIdle

\* No session of a dashboard is modelled.
DashIdle ==
    /\ dash = "none"
    /\ tables = <<>>
    /\ settings = <<>>
    /\ dataset = ""
    /\ view = <<>>
    /\ csv = NoDf
    /\ downloaded = NoDf

Init ==
    \E ws \in WordLists, lead \in Pads, trail \in Pads, sep \in Seps :
        \E w2 \in (IF Len(ws) >= 2 THEN Recasings(ws[2]) ELSE {""}) :
            /\ core = Join(ws, " ")
            /\ arg = lead
                     \o Join(IF Len(ws) >= 2 THEN [ws EXCEPT ![2] = w2] ELSE ws,
                             sep)
                     \o trail
            /\ date_str = ""
            /\ pc = "call"
            /\ ret = None
            /\ tried = <<>>
            /\ pass = 1
            /\ first = None
            /\ CleanIdle
            /\ FetchIdle
            /\ LoadIdle
            /\ HouseIdle
            /\ DashIdle
            /\ MainIdle
            /\ LaterIdle
\* line 69: date_str = str(date_str).strip()
Call ==
    /\ pc = "call"
    /\ date_str' = Strip(arg)
    /\ pc' = "try"
    /\ UNCHANGED <<core, arg, ret, tried, pass, first>>
    /\ UNCHANGED notParseVars

\* line 72: if len(date_str.split()) == 2
TestWords ==
    /\ pc = "try"
    /\ pc' = IF TwoWords(date_str) THEN "lookup" ELSE "generic"
    /\ UNCHANGED <<core, arg, date_str, ret, tried, pass, first>>
    /\ UNCHANGED notParseVars

\* lines 73-85: the table lookup, which returns when the key is found
Lookup ==
    /\ pc = "lookup"
    /\ tried' = Append(tried, "table")
    /\ IF InTable(date_str)
       THEN /\ ret' = TableResult(date_str)
            /\ pc' = "done"
       ELSE /\ ret' = ret
            /\ pc' = "generic"
    /\ UNCHANGED <<core, arg, date_str, pass, first>>
    /\ UNCHANGED notParseVars

\* line 88: return pd.to_datetime(date_str).strftime('%Y-%m-%d')
Generic ==
    /\ pc = "generic"
    /\ tried' = Append(tried, "generic")
    /\ LET r == GenericParse(date_str)
       IN  IF r.kind = "raise"
           THEN /\ ret' = ret
                /\ pc' = "except"
           ELSE /\ ret' = r
                /\ pc' = "done"
    /\ UNCHANGED <<core, arg, date_str, pass, first>>
    /\ UNCHANGED notParseVars

\* lines 89-90: except: return None
Except ==
    /\ pc = "except"
    /\ ret' = ExceptHandler
    /\ pc' = "done"
    /\ UNCHANGED <<core, arg, date_str, tried, pass, first>>
    /\ UNCHANGED notParseVars

\* The normaliser run again on the date it returned.
Rerun ==
    /\ pc = "done"
    /\ pass = 1
    /\ ret.kind = "str"
    /\ first' = ret
    /\ arg' = ret.val
    /\ pass' = 2
    /\ pc' = "call"
    /\ tried' = <<>>
    /\ date_str' = ""
    /\ ret' = None
    /\ UNCHANGED core
    /\ UNCHANGED notParseVars

Next ==
    \/ Call
    \/ TestWords
    \/ Lookup
    \/ Generic
    \/ Except
    \/ Rerun

Spec == Init /\ [][Next]_vars

(***************************************************************************)
(* What the claims speak of, written without the operators of the model.   *)
(***************************************************************************)
Finished == pc = "done" /\ pass = 1

Abbreviations == {MonthAbbrs[m] : m \in 1..12}
QuarterSet == {QuarterCodes[q] : q \in 1..4}

\* A calendar date written year, month, day with sep between the fields.
Iso(y, m, d, sep) == Pad(y, 4) \o sep \o Pad(m, 2) \o sep \o Pad(d, 2)

DaysOfMonth(y, m) ==
    CASE m \in {1, 3, 5, 7, 8, 10, 12} -> 31
      [] m \in {4, 6, 9, 11} -> 30
      [] OTHER -> IF y % 4 = 0 /\ (y % 100 # 0 \/ y % 400 = 0) THEN 29 ELSE 28

\* Every calendar date string of the model's years, with the date it names.
CalendarCases ==
    UNION {{<<Iso(y, m, d, sep), Iso(y, m, d, "-")>> :
                d \in 1..DaysOfMonth(y, m), sep \in {"-", "/"}} :
           y \in YearNumbers, m \in 1..12}

\* The plain tokens the table resolves: two words, the second a key.
TableCores ==
    {w \o " " \o k : w \in FirstWords, k \in Abbreviations \cup QuarterSet}

\* The plain tokens that are calendar strings: dates, bare years, a year
\* and a month name.
CalendarCores ==
    {c[1] : c \in CalendarCases} \cup Years
    \cup {y \o " " \o n : y \in Years, n \in {"JULY", "SEPT", "SEPTEMBER"}}

\* A string of the form YYYY-MM-01 with MM a month.
IsFirstOfMonth(s) ==
    /\ Len(s) = 10
    /\ \A i \in 1..4 : Char(s, i) \in {Pad(n, 1) : n \in 0..9}
    /\ Char(s, 5) = "-"
    /\ SubSeq(s, 6, 7) \in {Pad(m, 2) : m \in 1..12}
    /\ SubSeq(s, 8, 10) = "-01"

(***************************************************************************)
(* C1: for every year Y and each of the twelve month abbreviations, in any *)
(* letter case (and with any blanks around), parse_ons_date of "Y MON"     *)
(* returns the first day of that month of the year, "Y-MM-01".             *)
(***************************************************************************)
C1_MonthTokenGivesFirstDay ==
    Finished =>
        \A y \in Years, m \in 1..12 :
            core = y \o " " \o MonthAbbrs[m]
                => ret = Str(y \o "-" \o Pad(m, 2) \o "-01")

\* "2023 mar", in lower case, has returned 2023-03-01.
C1_Witness ==
    /\ Finished
    /\ arg = Pad(FirstYear, 4) \o " mar"
    /\ ret = Str(Pad(FirstYear, 4) \o "-03-01")

(***************************************************************************)
(* C2: for every year Y and every quarter code Q1..Q4, parse_ons_date of   *)
(* "Y Qn" returns the first day of the last month of the quarter:          *)
(* Q1 -> Y-03-01, Q2 -> Y-06-01, Q3 -> Y-09-01, Q4 -> Y-12-01.             *)
(***************************************************************************)
C2_QuarterTokenGivesFinalMonth ==
    Finished =>
        \A y \in Years, q \in 1..4 :
            core = y \o " " \o QuarterCodes[q]
                => ret = Str(y \o "-" \o Pad(3 * q, 2) \o "-01")

\* "2023 Q2" has returned 2023-06-01.
C2_Witness ==
    /\ Finished
    /\ arg = Pad(FirstYear, 4) \o " Q2"
    /\ ret = Str(Pad(FirstYear, 4) \o "-06-01")

(***************************************************************************)
(* C3: the output of parse_ons_date is always either a canonical date      *)
(* whose day is 1 or the failure signal None; no input gives a date with   *)
(* another day.                                                            *)
(***************************************************************************)
C3_OutputIsFirstOfMonthOrNone ==
    Finished => (ret = None \/ (ret.kind = "str" /\ IsFirstOfMonth(ret.val)))

(***************************************************************************)
(* C4: an input the table does not resolve and that is a calendar date     *)
(* string comes back as that same date with its day of month kept, by the  *)
(* generic parsing alone; only a result of the table path has its day      *)
(* forced to 1.                                                            *)
(***************************************************************************)
C4_FallbackKeepsTheDay ==
    Finished =>
        /\ \A c \in CalendarCases :
              core = c[1] => (ret = Str(c[2]) /\ tried = <<"generic">>)
        /\ tried = <<"table">> => SubSeq(ret.val, Len(ret.val) - 2, Len(ret.val)) = "-01"

\* "2023/07/15" has returned 2023-07-15: the day is kept.
C4_Witness ==
    /\ Finished
    /\ arg = Iso(FirstYear, 7, 15, "/")
    /\ ret = Str(Iso(FirstYear, 7, 15, "-"))

C6_IdempotentOnOutputs ==
    (pc = "done" /\ pass = 2) => ret = first

(***************************************************************************)
(* C7: the result depends neither on the whitespace around the token nor   *)
(* on the letter case of its second word: a recognised token with blanks   *)
(* around it and its second word in any case gives what the plain token    *)
(* gives.                                                                  *)
(***************************************************************************)
C7_PaddingAndCaseIgnored ==
    Finished =>
        ((ret.kind = "str" \/ ParseOnsDate(core).kind = "str")
            => ret = ParseOnsDate(core))

\* " 2023 mAr\t", padded and in mixed case, has returned 2023-03-01.
C7_Witness ==
    /\ Finished
    /\ arg = " " \o Pad(FirstYear, 4) \o " mAr\t"
    /\ core = Pad(FirstYear, 4) \o " MAR"
    /\ ret = Str(Pad(FirstYear, 4) \o "-03-01")

TwoWordCores == {w \o " " \o k : w \in FirstWords, k \in SecondWords}

\* In pass 2 the input is a returned date, which is one word.
ExactlyTwoWords == pass = 1 /\ core \in TwoWordCores
ResolvedByTable == pass = 1 /\ core \in TableCores

(***************************************************************************)
(* C8: the two strategies come in a fixed order.  The table is looked up   *)
(* only for an input of exactly two words and, when the second word is a   *)
(* key, decides the result without generic parsing; generic parsing is     *)
(* attempted exactly when the input is not two words or its second word is *)
(* no key; None is returned only after generic parsing has failed.         *)
(***************************************************************************)
C8_TableFirstThenGeneric ==
    /\ tried \in {<<>>, <<"table">>, <<"generic">>, <<"table", "generic">>}
    /\ (tried # <<>> /\ tried[1] = "table") => ExactlyTwoWords
    /\ pc = "except" => tried[Len(tried)] = "generic"
    /\ pc = "done" =>
          /\ ResolvedByTable => tried = <<"table">>
          /\ (tried[Len(tried)] = "generic") <=> ~ResolvedByTable
          /\ ret = None => tried[Len(tried)] = "generic"

\* "2023 XYZ": the table was tried, then generic parsing, then None.
C8_Witness ==
    /\ Finished
    /\ core = Pad(FirstYear, 4) \o " XYZ"
    /\ tried = <<"table", "generic">>
    /\ ret = None

(***************************************************************************)
(* clean_ons_timeseries, from the rows read_csv gave (lines 64-113).  A    *)
(* raw row is [date, value], both strings; a cleaned row is                *)
(* [date, value, year, month], the date a timestamp and the value a        *)
(* float, in tenths, or NaN.                                               *)
(***************************************************************************)
NaN == [nan |-> TRUE, num |-> 0]
Num(n) == [nan |-> FALSE, num |-> n]

\* pd.to_numeric(errors='coerce') of one cell: digits, or digits with one
\* decimal after a point; anything else is coerced to NaN.
ToNumeric(cell) ==
    IF IsDigits(cell) THEN Num(10 * ParseNat(cell))
    ELSE IF /\ Len(cell) >= 3
            /\ Char(cell, Len(cell) - 1) = "."
            /\ IsDigits(SubSeq(cell, 1, Len(cell) - 2))
            /\ IsDigit(Char(cell, Len(cell)))
    THEN Num(10 * ParseNat(SubSeq(cell, 1, Len(cell) - 2))
             + ParseNat(Char(cell, Len(cell))))
    ELSE NaN

\* The order of two timestamps.
DateKey(ts) == ts.y * 10000 + ts.m * 100 + ts.d

\* rows with row put after the last row whose date is not later.
RECURSIVE InsertByDate(_, _)
InsertByDate(rows, row) ==
    IF rows = <<>> THEN <<row>>
    ELSE IF DateKey(rows[Len(rows)].date) <= DateKey(row.date)
    THEN Append(rows, row)
    ELSE Append(InsertByDate(SubSeq(rows, 1, Len(rows) - 1), row),
                rows[Len(rows)])

\* sort_values('date'): rows of one date keep their order.
RECURSIVE SortByDate(_)
SortByDate(rows) ==
    IF rows = <<>> THEN <<>>
    ELSE InsertByDate(SortByDate(SubSeq(rows, 1, Len(rows) - 1)),
                      rows[Len(rows)])

\* lines 64 and 92: the date column stripped, and date_clean beside it
WithDateClean(rows) ==
    [i \in DOMAIN rows |->
        [date |-> Strip(rows[i].date),
         value |-> rows[i].value,
         date_clean |-> ParseOnsDate(Strip(rows[i].date))]]

\* line 93: df.dropna(subset=['date_clean'])
DropNaDates(rows) == SelectSeq(rows, LAMBDA r : r.date_clean.kind # "None")

\* lines 96-97: to_numeric, then df.dropna(subset=['value'])
DropNaValues(rows) ==
    SelectSeq([i \in DOMAIN rows |-> [rows[i] EXCEPT !.value = ToNumeric(@)]],
              LAMBDA r : ~r.value.nan)

\* lines 100-108: the final dataframe, its date column a timestamp
FinalRows(rows) ==
    [i \in DOMAIN rows |->
        LET ts == ToDatetime(rows[i].date_clean.val)
        IN  [date |-> ts, value |-> rows[i].value,
             year |-> ts.y, month |-> ts.m]]

\* An exception in place of a dataframe.
RaisedDf == [kind |-> "raise", rows |-> <<>>]

\* The body of the try block (lines 35-113): an exception when
\* parse_ons_date let one out (line 92) or pd.to_datetime of the column
\* raised (line 101).
CleaningBody(rows) ==
    LET parsed == WithDateClean(rows)
        kept == DropNaValues(DropNaDates(parsed))
        final == FinalRows(kept)
    IN  IF \E i \in DOMAIN parsed : parsed[i].date_clean.kind = "raise"
        THEN RaisedDf
        ELSE IF \E i \in DOMAIN final : final[i].date.kind = "error"
        THEN RaisedDf
        ELSE Df(SortByDate(final))

\* A function without the except clause: the exception goes to the caller.
ExceptLetsOut(res) == res

\* lines 115-117: except Exception: return None
ExceptReturnsNone(res) == IF res.kind = "raise" THEN NoDf ELSE res

\* The whole function.
CleanOnsTimeseries(rows) == ExceptReturnsNone(CleaningBody(rows))

(***************************************************************************)
(* process_ons_files and merge_cpi_data.                                   *)
(***************************************************************************)
\* The file names and column names of ons_files, in the order of the dict.
ons_files ==
    << <<"cpi_annual_rate.csv", "cpi_annual">>,
       <<"cpih_annual_rate.csv", "cpih_annual">>,
       <<"cpi_monthly_rate.csv", "cpi_monthly">>,
       <<"food_inflation.csv", "food_inflation">>,
       <<"housing_energy_inflation.csv", "housing_energy_inflation">> >>

\* How many entries of ons_files the loop goes through in the model.
FilesProcessed == IF MaxFiles < Len(ons_files) THEN MaxFiles ELSE Len(ons_files)

\* The row of the left table with the column name added.
WithColumn(l, name, cell) ==
    [l EXCEPT !.cols = [c \in DOMAIN l.cols \cup {name} |->
                            IF c = name THEN cell ELSE l.cols[c]]]

\* merged.merge(df_to_merge, on='date', how='left'): every left row, once
\* for each right row of its date, or once with NaN when there is none.
RECURSIVE LeftMerge(_, _, _)
LeftMerge(left, right, name) ==
    IF left = <<>> THEN <<>>
    ELSE LET l == Head(left)
             matches == SelectSeq(right, LAMBDA r : r.date = l.date)
         IN  (IF matches = <<>>
              THEN <<WithColumn(l, name, NaN)>>
              ELSE [i \in DOMAIN matches |->
                       WithColumn(l, name, matches[i].value)])
             \o LeftMerge(Tail(left), right, name)

\* lines 164-173, from the entry i of ons_files on.
RECURSIVE MergeFrom(_, _, _)
MergeFrom(m, dfs, i) ==
    IF i > Len(ons_files) THEN m
    ELSE LET name == ons_files[i][2]
         IN  IF name \in DOMAIN dfs /\ name # "cpi_annual"
             THEN MergeFrom(LeftMerge(m, dfs[name], name), dfs, i + 1)
             ELSE MergeFrom(m, dfs, i + 1)

\* merge_cpi_data: None when there is no cpi_annual series (lines 160-162).
MergeCpiData(dfs) ==
    IF "cpi_annual" \notin DOMAIN dfs THEN NoDf
    ELSE Df(MergeFrom(
                [i \in DOMAIN dfs["cpi_annual"] |->
                    LET r == dfs["cpi_annual"][i]
                    IN  [date |-> r.date, year |-> r.year, month |-> r.month,
                         cols |-> [c \in {"cpi_annual"} |-> r.value]]],
                dfs, 1))

(***************************************************************************)
(* The raw files of the model: up to MaxRows rows, each period at most     *)
(* once in a file, as in an ONS timeseries export.                         *)
(***************************************************************************)
\* A bare year, a month and a quarter, all of one year; a missing date; a
\* month after a word that is no year.
RowTokens ==
    LET y == Pad(FirstYear, 4)
    IN  {y, y \o " JAN", y \o " Q1", "nan", "abc JAN"}

RowValues == {"1.5", "x"}

RawRows == [date : RowTokens, value : RowValues]

RECURSIVE RowSeqs(_)
RowSeqs(n) ==
    IF n = 0 THEN {<<>>}
    ELSE LET shorter == RowSeqs(n - 1)
         IN  shorter \cup
             {Append(rows, r) : rows \in {q \in shorter : Len(q) = n - 1},
                                r \in RawRows}

FileContents ==
    {rows \in RowSeqs(MaxRows) :
        \A i, j \in DOMAIN rows : i # j => rows[i].date # rows[j].date}

\* What clean_ons_timeseries returns for each file of the model.
CleanedFile == [rows \in FileContents |-> CleanOnsTimeseries(rows)]

CleanInit ==
    /\ fpc = "files"
    /\ idx = 1
    /\ raw = <<>>
    /\ cleaned = NoDf
    /\ processed_dfs = <<>>
    /\ merged = NoDf
    /\ ParseIdle
    /\ FetchIdle
    /\ LoadIdle
    /\ HouseIdle
    /\ DashIdle
    /\ MainIdle
    /\ LaterIdle
\* lines 137-146: one file of ons_files that exists is cleaned and, when
\* the result is a dataframe with rows, kept under its column name; an
\* exception of clean_ons_timeseries would leave process_ons_files and
\* main().
ProcessFile ==
    /\ fpc = "files"
    /\ idx <= FilesProcessed
    /\ \E rows \in FileContents :
        LET df == CleanedFile[rows]
            name == ons_files[idx][2]
        IN  /\ raw' = rows
            /\ cleaned' = df
            /\ processed_dfs' =
                  IF df.kind = "df" /\ Len(df.rows) > 0
                  THEN [n \in DOMAIN processed_dfs \cup {name} |->
                           IF n = name THEN df.rows ELSE processed_dfs[n]]
                  ELSE processed_dfs
            /\ fpc' = IF df.kind = "raise" THEN "crashed" ELSE fpc
            /\ idx' = IF df.kind = "raise" THEN idx ELSE idx + 1
    /\ UNCHANGED merged
    /\ UNCHANGED notCleanVars

\* lines 36-54: the file exists and cannot be read (open or every read_csv
\* raises): the exception is handled as any other of the function.
FileUnreadable ==
    /\ fpc = "files"
    /\ idx <= FilesProcessed
    /\ LET df == ExceptReturnsNone(RaisedDf)
       IN  /\ raw' = <<>>
           /\ cleaned' = df
           /\ fpc' = IF df.kind = "raise" THEN "crashed" ELSE fpc
           /\ idx' = IF df.kind = "raise" THEN idx ELSE idx + 1
    /\ UNCHANGED <<processed_dfs, merged>>
    /\ UNCHANGED notCleanVars

\* lines 147-148: the file does not exist
FileNotFound ==
    /\ fpc = "files"
    /\ idx <= FilesProcessed
    /\ raw' = <<>>
    /\ cleaned' = NoDf
    /\ idx' = idx + 1
    /\ UNCHANGED <<fpc, processed_dfs, merged>>
    /\ UNCHANGED notCleanVars

\* line 150: return processed_dfs
FilesDone ==
    /\ fpc = "files"
    /\ idx > FilesProcessed
    /\ fpc' = "merge"
    /\ UNCHANGED <<idx, raw, cleaned, processed_dfs, merged>>
    /\ UNCHANGED notCleanVars

\* main(), step 2: ons_merged = merge_cpi_data(ons_data)
Merge ==
    /\ fpc = "merge"
    /\ merged' = MergeCpiData(processed_dfs)
    /\ fpc' = "merged"
    /\ UNCHANGED <<idx, raw, cleaned, processed_dfs>>
    /\ UNCHANGED notCleanVars

CleanNext ==
    \/ ProcessFile
    \/ FileUnreadable
    \/ FileNotFound
    \/ FilesDone
    \/ Merge

SpecClean == CleanInit /\ [][CleanNext]_vars

\* The period tokens of the model's files, each with the date it stands for.
PeriodDate ==
    LET y == Pad(FirstYear, 4)
    IN  (y :> y \o "-01-01") @@ (y \o " JAN" :> y \o "-01-01") @@
        (y \o " Q1" :> y \o "-03-01")

\* The rows of the file read last whose date is one and whose value is a
\* number.
GoodRows ==
    {i \in DOMAIN raw : raw[i].date \in DOMAIN PeriodDate /\ raw[i].value = "1.5"}

\* The rows returned, as pairs of the date, formatted, and the value.
ReturnedPairs ==
    {<<Strftime(cleaned.rows[i].date).val, cleaned.rows[i].value>> :
        i \in DOMAIN cleaned.rows}

(***************************************************************************)
(* C9: a date token that does not parse costs only its own record:         *)
(* clean_ons_timeseries returns exactly the rows of the file whose date    *)
(* parsed and whose value is numeric, whatever the other rows hold.        *)
(***************************************************************************)
C9_OnlyTheBadRowIsLost ==
    idx > 1 =>
        /\ \A i \in GoodRows :
              /\ cleaned.kind = "df"
              /\ <<PeriodDate[raw[i].date], Num(15)>> \in ReturnedPairs
        /\ cleaned.kind = "df" => Len(cleaned.rows) = Cardinality(GoodRows)

DatesOf(rows) == {rows[i].date : i \in DOMAIN rows}

(***************************************************************************)
(* C10: the canonical date is a join key: the distinct periods of one      *)
(* series (a year, a month and a quarter of one year among them) get       *)
(* distinct dates, so that a date occurs at most once in a cleaned series  *)
(* and merge_cpi_data gives exactly one row for each date of cpi_annual.   *)
(***************************************************************************)
C10_DateIsAJoinKey ==
    /\ \A n \in DOMAIN processed_dfs :
          Cardinality(DatesOf(processed_dfs[n])) = Len(processed_dfs[n])
    /\ (fpc = "merged" /\ merged.kind = "df") =>
          /\ Len(merged.rows) = Cardinality(DatesOf(processed_dfs["cpi_annual"]))
          /\ Cardinality(DatesOf(merged.rows)) = Len(merged.rows)

(***************************************************************************)
(* The fetch scripts.  A remote resource is named by its file name (ONS    *)
(* datasets), its year (Price Paid files) or its ticker.                   *)
(***************************************************************************)
\* cost-of-living/src/01_download_data.py: the file names of datasets.
ons_datasets ==
    << "cpi_annual_rate.csv", "cpih_annual_rate.csv", "cpi_monthly_rate.csv",
       "food_inflation.csv", "housing_energy_inflation.csv",
       "transport_inflation.csv", "avg_weekly_earnings.csv" >>

\* uk-housing-market/src/01_download_data.py: years_to_download; each is a
\* key of YEARLY_FILES.
years_to_download == << "2024", "2023", "2022" >>

\* ftse-analysis/src/01_fetch_stock_data.py: the keys of FTSE_100_TICKERS.
FTSE_100_TICKERS ==
    << "SHEL.L", "BP.L", "HSBA.L", "LLOY.L", "BARC.L", "NWG.L", "STAN.L",
       "LSEG.L", "ULVR.L", "DGE.L", "RKT.L", "BATS.L", "AZN.L", "GSK.L",
       "RIO.L", "AAL.L", "GLEN.L", "VOD.L", "BT-A.L", "BA.L", "RR.L",
       "REL.L", "TSCO.L", "SBRY.L", "JD.L", "NG.L", "SSE.L", "LAND.L",
       "BLND.L", "CPG.L" >>

\* The tickers the loop of fetch_stock_data goes through in the model.
TickersFetched ==
    SubSeq(FTSE_100_TICKERS, 1,
           IF MaxTickers < Len(FTSE_100_TICKERS)
           THEN MaxTickers ELSE Len(FTSE_100_TICKERS))

FtseIndex == "^FTSE"

\* The resources a script loops over, in order.
LoopResources(sc) ==
    CASE sc = "col" -> ons_datasets
      [] sc = "housing" -> years_to_download
      [] sc = "ftse" -> TickersFetched

\* All the remote resources of a script.
ResourcesOf(sc) ==
    {LoopResources(sc)[i] : i \in DOMAIN LoopResources(sc)}
    \cup (IF sc = "ftse" THEN {FtseIndex} ELSE {})

\* A faulty loop that asks again for a resource whose request failed.
AfterAttemptRetry(p, outcome) == IF outcome = "error" THEN p ELSE p + 1

\* The for loops go on to the next resource whatever the outcome was.
AfterAttempt(p, outcome) == p + 1

\* One more request for the resource r.
Request(r) == [requested EXCEPT ![r] = @ + 1]

\* The rows of at least one ticker or of the index were fetched.
SomeRecords == \E r \in DOMAIN fetched : fetched[r] = "ok"

FetchInit ==
    /\ script \in {"col", "housing", "ftse"}
    /\ fetchpc = "loop"
    /\ fpos = 1
    /\ requested = [r \in ResourcesOf(script) |-> 0]
    /\ fetched = [r \in ResourcesOf(script) |-> "none"]
    /\ synthetic = FALSE
    /\ ParseIdle
    /\ CleanIdle
    /\ LoadIdle
    /\ HouseIdle
    /\ DashIdle
    /\ MainIdle
    /\ LaterIdle
InLoop(sc) ==
    /\ script = sc
    /\ fetchpc = "loop"
    /\ fpos <= Len(LoopResources(sc))

\* cost-of-living download_file (lines 26-48) in the loop of
\* download_ons_datasets (lines 97-99): one GET; any exception is caught
ColDownload ==
    /\ InLoop("col")
    /\ \E outcome \in {"ok", "error"} :
        LET r == ons_datasets[fpos]
        IN  /\ requested' = Request(r)
            /\ fetched' = [fetched EXCEPT ![r] = outcome]
            /\ fpos' = AfterAttempt(fpos, outcome)
    /\ UNCHANGED <<script, fetchpc, synthetic>>
    /\ UNCHANGED notFetchVars

\* housing download_file, lines 86-88: the file is on disk, no request
HousingAlreadyThere ==
    /\ InLoop("housing")
    /\ fetched' = [fetched EXCEPT ![years_to_download[fpos]] = "exists"]
    /\ fpos' = fpos + 1
    /\ UNCHANGED <<script, fetchpc, requested, synthetic>>
    /\ UNCHANGED notFetchVars

\* housing download_file, lines 90-112, in the loop of download_all_years
\* (lines 122-128): one GET; a RequestException is caught
HousingDownload ==
    /\ InLoop("housing")
    /\ \E outcome \in {"ok", "error"} :
        LET r == years_to_download[fpos]
        IN  /\ requested' = Request(r)
            /\ fetched' = [fetched EXCEPT ![r] = outcome]
            /\ fpos' = AfterAttempt(fpos, outcome)
    /\ UNCHANGED <<script, fetchpc, synthetic>>
    /\ UNCHANGED notFetchVars

\* fetch_stock_data, lines 86-109: one history() call for a ticker; no
\* data and an exception both go on to the next ticker
FtseTicker ==
    /\ InLoop("ftse")
    /\ \E outcome \in {"ok", "empty", "error"} :
        LET r == TickersFetched[fpos]
        IN  /\ requested' = Request(r)
            /\ fetched' = [fetched EXCEPT ![r] = outcome]
            /\ fpos' = AfterAttempt(fpos, outcome)
    /\ UNCHANGED <<script, fetchpc, synthetic>>
    /\ UNCHANGED notFetchVars

\* The loop is over: download_ons_datasets, download_all_years or
\* fetch_stock_data returns.
LoopDone ==
    /\ script \in {"col", "housing", "ftse"}
    /\ fetchpc = "loop"
    /\ fpos > Len(LoopResources(script))
    /\ fetchpc' = IF script = "ftse" THEN "index" ELSE "rest"
    /\ UNCHANGED <<script, fpos, requested, fetched, synthetic>>
    /\ UNCHANGED notFetchVars

\* fetch_ftse_index, lines 120-132: one history() call, in no try block:
\* an exception it raises leaves main()
FtseFetchIndex ==
    /\ script = "ftse"
    /\ fetchpc = "index"
    /\ \E outcome \in {"ok", "empty", "error"} :
        /\ requested' = Request(FtseIndex)
        /\ fetched' = [fetched EXCEPT ![FtseIndex] = outcome]
        /\ fetchpc' = IF outcome = "error" THEN "crashed" ELSE "rest"
    /\ UNCHANGED <<script, fpos, synthetic>>
    /\ UNCHANGED notFetchVars

\* cost-of-living main(), lines 358-381: the downloaded files are looked
\* at, the sample data is always generated
ColRest ==
    /\ script = "col"
    /\ fetchpc = "rest"
    /\ synthetic' = TRUE
    /\ fetchpc' = "done"
    /\ UNCHANGED <<script, fpos, requested, fetched>>
    /\ UNCHANGED notFetchVars

\* housing main(), lines 220-243: preview and London filter of the files
\* that are there
HousingRest ==
    /\ script = "housing"
    /\ fetchpc = "rest"
    /\ fetchpc' = "done"
    /\ UNCHANGED <<script, fpos, requested, fetched, synthetic>>
    /\ UNCHANGED notFetchVars

\* ftse main(), lines 176-204: concat, metrics, CSV, summary; with no
\* record at all the date range of the summary (line 192) raises
FtseRest ==
    /\ script = "ftse"
    /\ fetchpc = "rest"
    /\ fetchpc' = IF SomeRecords THEN "done" ELSE "crashed"
    /\ UNCHANGED <<script, fpos, requested, fetched, synthetic>>
    /\ UNCHANGED notFetchVars

FetchNext ==
    \/ ColDownload
    \/ HousingAlreadyThere
    \/ HousingDownload
    \/ FtseTicker
    \/ LoopDone
    \/ FtseFetchIndex
    \/ ColRest
    \/ HousingRest
    \/ FtseRest

SpecFetch == FetchInit /\ [][FetchNext]_vars

(***************************************************************************)
(* C11: in every fetch script the failure of the download of one remote    *)
(* resource (an ONS dataset, a yearly Price Paid file, a ticker, the FTSE  *)
(* index) is caught and skipped: no exception leaves the script, and the   *)
(* script gets past its downloads with every resource attempted.           *)
(***************************************************************************)
C11_DownloadFailureIsSkipped ==
    /\ fetchpc # "crashed"
    /\ fetchpc \in {"rest", "done"} =>
          \A r \in DOMAIN fetched : fetched[r] # "none"

(***************************************************************************)
(* C12: nothing is retried: in one run of a fetch script each remote       *)
(* resource is requested at most once, so that no second request follows a *)
(* failed one.                                                             *)
(***************************************************************************)
C12_NoRetry ==
    \A r \in DOMAIN requested : requested[r] <= 1

\* The housing script is done: the 2024 file failed after its one request
\* and the 2023 file was then downloaded.
C12_Witness ==
    /\ script = "housing"
    /\ fetchpc = "done"
    /\ fetched["2024"] = "error"
    /\ requested["2024"] = 1
    /\ fetched["2023"] = "ok"

(***************************************************************************)
(* The scripts that start by loading their input files.                    *)
(***************************************************************************)

\* The files a script looks for when it loads its data.
InputFiles(j) ==
    CASE j = "housing_clean" ->
             {"london-pp-" \o years_to_download[i] \o ".csv" :
                  i \in DOMAIN years_to_download}
      [] j = "col_app" ->
             {"master_cpi_data.csv", "regional_prices_clean.csv",
              "wages_clean.csv", "basket_of_goods.csv"}
      [] j = "ftse_analysis" -> {"ftse_stock_data_raw.csv"}

\* Whether the loading step finds the input it cannot do without: one
\* london-pp-*.csv file at least for load_london_data, master_cpi_data.csv
\* for the dashboard ('cpi' in data), the raw stock CSV for the analysis.
RequiredInputFound(j, files) ==
    CASE j = "housing_clean" -> files # {}
      [] j = "col_app" -> "master_cpi_data.csv" \in files
      [] j = "ftse_analysis" -> "ftse_stock_data_raw.csv" \in files

\* What the user is shown when the required input is missing: the text of
\* the FileNotFoundError raised by load_london_data, the st.error of the
\* dashboard, the text of the FileNotFoundError raised by read_csv.
MissingMessage(j) ==
    CASE j = "housing_clean" ->
             "FileNotFoundError: No London data files found. Run 01_download_data.py first."
      [] j = "col_app" ->
             "Data not found. Please run the data processing scripts first."
      [] j = "ftse_analysis" ->
             "FileNotFoundError: [Errno 2] No such file or directory: '../data/ftse_stock_data_raw.csv'"

\* The steps of main() after the loading step, in source order.
LaterSteps(j) ==
    CASE j = "housing_clean" ->
             <<"clean_data", "generate_summary_statistics",
               "create_aggregated_tables", "save_to_database",
               "save_cleaned_csv">>
      [] j = "col_app" ->
             <<"header", "filters", "kpi_row", "tab_inflation_trends",
               "tab_regional_analysis", "tab_wages", "tab_basket_of_goods",
               "tab_data_explorer", "footer">>
      [] j = "ftse_analysis" ->
             <<"calculate_performance", "stock_performance.csv",
               "plot_sector_performance", "plot_top_performers",
               "plot_price_trends", "plot_correlation_matrix",
               "plot_volatility_over_time", "plot_monthly_returns_heatmap",
               "generate_summary_report">>

\* A loading step that goes on without its input.
AfterMissingInputGoesOn(j) ==
    [jpc |-> "run", message |-> "none"]

\* How the loading step ends when the required input is missing: the
\* exception leaves main(), or st.error and st.stop() end the run.
AfterMissingInput(j) ==
    [jpc |-> "stopped", message |-> MissingMessage(j)]

LoadInit ==
    /\ job \in {"housing_clean", "col_app", "ftse_analysis"}
    /\ present \in SUBSET InputFiles(job)
    /\ jpc = "load"
    /\ message = "none"
    /\ performed = <<>>
    /\ ParseIdle
    /\ CleanIdle
    /\ FetchIdle
    /\ HouseIdle
    /\ DashIdle
    /\ MainIdle
    /\ LaterIdle
\* load_london_data / load_data with the required input there.
LoadFound ==
    /\ jpc = "load"
    /\ RequiredInputFound(job, present)
    /\ jpc' = "run"
    /\ UNCHANGED <<job, present, message, performed>>
    /\ UNCHANGED notLoadVars

\* The same with the required input missing.
LoadMissing ==
    /\ jpc = "load"
    /\ ~RequiredInputFound(job, present)
    /\ jpc' = AfterMissingInput(job).jpc
    /\ message' = AfterMissingInput(job).message
    /\ UNCHANGED <<job, present, performed>>
    /\ UNCHANGED notLoadVars

\* The next step of main() after the loading step.
LaterStep ==
    /\ jpc = "run"
    /\ Len(performed) < Len(LaterSteps(job))
    /\ performed' = Append(performed, LaterSteps(job)[Len(performed) + 1])
    /\ UNCHANGED <<job, present, jpc, message>>
    /\ UNCHANGED notLoadVars

\* main() comes to its end.
LoadRunEnds ==
    /\ jpc = "run"
    /\ Len(performed) = Len(LaterSteps(job))
    /\ jpc' = "done"
    /\ UNCHANGED <<job, present, message, performed>>
    /\ UNCHANGED notLoadVars

LoadNext ==
    \/ LoadFound
    \/ LoadMissing
    \/ LaterStep
    \/ LoadRunEnds

SpecLoad == LoadInit /\ [][LoadNext]_vars

(***************************************************************************)
(* C13: when the required input file of a script is missing, the script    *)
(* stops in its loading step with a message to the user and performs none  *)
(* of its later steps.                                                     *)
(***************************************************************************)
C13_MissingInputStops ==
    (jpc # "load" /\ ~RequiredInputFound(job, present)) =>
        /\ jpc = "stopped"
        /\ message # "none"
        /\ performed = <<>>

\* The dashboard was started with the wages file there and the CPI file
\* missing, and its loading step is over.
C13_Witness ==
    /\ job = "col_app"
    /\ present = {"wages_clean.csv"}
    /\ jpc = "stopped"

(***************************************************************************)
(* clean_data of the housing cleaning script                               *)
(* (projects/uk-housing-market/src/02_data_cleaning.py).  A row of the     *)
(* loaded table is [transaction_id, price, date_of_transfer, postcode,     *)
(* district, property_type]: the price a float or NaN, the other cells a   *)
(* str or None (a missing cell).                                           *)
(***************************************************************************)
LONDON_REGIONS ==
    [d \in {"CITY OF LONDON", "WESTMINSTER", "CAMDEN", "ISLINGTON",
            "KENSINGTON AND CHELSEA", "LAMBETH", "SOUTHWARK",
            "TOWER HAMLETS"} |-> "Central"] @@
    [d \in {"BARNET", "ENFIELD", "HARINGEY", "WALTHAM FOREST"} |-> "North"] @@
    [d \in {"BROMLEY", "CROYDON", "LEWISHAM", "MERTON", "SUTTON",
            "GREENWICH"} |-> "South"] @@
    [d \in {"BARKING AND DAGENHAM", "BEXLEY", "HAVERING", "NEWHAM",
            "REDBRIDGE", "HACKNEY"} |-> "East"] @@
    [d \in {"BRENT", "EALING", "HAMMERSMITH AND FULHAM", "HARROW",
            "HILLINGDON", "HOUNSLOW", "RICHMOND UPON THAMES",
            "KINGSTON UPON THAMES", "WANDSWORTH"} |-> "West"]

PROPERTY_TYPES ==
    ("D" :> "Detached") @@ ("S" :> "Semi-Detached") @@ ("T" :> "Terraced") @@
    ("F" :> "Flat/Maisonette") @@ ("O" :> "Other")

essential_cols == {"price", "date_of_transfer", "postcode", "district"}

\* Series.map(dict) of one cell: NaN for a missing cell or a missing key.
MapCell(cell, dict) ==
    IF cell.kind = "str" /\ cell.val \in DOMAIN dict
    THEN Str(dict[cell.val])
    ELSE None

\* pd.isna of the cell of one column of a row.
IsNull(row, col) ==
    CASE col = "price" -> row.price.nan
      [] col = "date_of_transfer" -> row.date_of_transfer.kind # "ts"
      [] col = "postcode" -> row.postcode.kind # "str"
      [] col = "district" -> row.district.kind # "str"

\* A removal of duplicates that keeps the last row of each transaction_id.
DropDuplicatesKeepLast(rows) ==
    LET lasts == {i \in DOMAIN rows :
                     \A j \in (i + 1)..Len(rows) :
                         rows[j].transaction_id # rows[i].transaction_id}
        F[i \in 0..Len(rows)] ==
            IF i = 0 THEN <<>>
            ELSE IF i \in lasts THEN Append(F[i - 1], rows[i]) ELSE F[i - 1]
    IN  F[Len(rows)]

\* 1. df.drop_duplicates(subset=['transaction_id']): the first row of each
\* transaction_id stays.
DropDuplicates(rows) ==
    LET firsts == {i \in DOMAIN rows :
                      \A j \in 1..(i - 1) :
                          rows[j].transaction_id # rows[i].transaction_id}
        F[i \in 0..Len(rows)] ==
            IF i = 0 THEN <<>>
            ELSE IF i \in firsts THEN Append(F[i - 1], rows[i]) ELSE F[i - 1]
    IN  F[Len(rows)]

\* 2. pd.to_datetime(errors='coerce') of one cell: NaT for a missing cell
\* and for a string that is no date.
ToDatetimeCoerce(cell) ==
    IF cell.kind # "str" THEN NaT
    ELSE IF ToDatetime(cell.val).kind = "ts" THEN ToDatetime(cell.val)
    ELSE NaT

ConvertDate(rows) ==
    [i \in DOMAIN rows |->
        [rows[i] EXCEPT !.date_of_transfer = ToDatetimeCoerce(@)]]

\* A null filter that looks at the price only.
DropNaEssentialPriceOnly(rows) ==
    SelectSeq(rows, LAMBDA r : ~IsNull(r, "price"))

\* 3. df.dropna(subset=essential_cols)
DropNaEssential(rows) ==
    SelectSeq(rows, LAMBDA r : \A c \in essential_cols : ~IsNull(r, c))

\* A price filter without the lower limit.
RemoveOutliersNoFloor(rows) ==
    SelectSeq(rows, LAMBDA r : r.price.num <= 50000000)

\* 4. df[(df['price'] >= 10000) & (df['price'] <= 50000000)]
RemoveOutliers(rows) ==
    SelectSeq(rows, LAMBDA r : r.price.num >= 10000 /\ r.price.num <= 50000000)

\* 5. df['district'].str.upper().str.strip()
StandardiseDistrict(rows) ==
    [i \in DOMAIN rows |->
        [rows[i] EXCEPT !.district = Str(Strip(Upper(@.val)))]]

\* 9. str.extract(r'^([A-Z]{1,2}\d{1,2}[A-Z]?)'): one or two capital
\* letters, one or two digits, and a capital letter if one follows.
PostcodeDistrict(code) ==
    LET isCap(i) == i <= Len(code) /\ IndexIn(Char(code, i), UpperLetters) > 0
        isDig(i) == i <= Len(code) /\ IsDigit(Char(code, i))
        letters == IF isCap(1) /\ isCap(2) /\ isDig(3) THEN 2
                   ELSE IF isCap(1) /\ isDig(2) THEN 1
                   ELSE 0
        digits == IF isDig(letters + 2) THEN 2 ELSE 1
        last == IF isCap(letters + digits + 1) THEN letters + digits + 1
                ELSE letters + digits
    IN  IF letters = 0 THEN None ELSE Str(SubSeq(code, 1, last))

\* 10. pd.cut(df['price'], bins, labels): each bin is closed on the right.
PriceBand(p) ==
    IF p <= 0 THEN None
    ELSE IF p <= 250000 THEN Str("Under 250k")
    ELSE IF p <= 500000 THEN Str("250k-500k")
    ELSE IF p <= 750000 THEN Str("500k-750k")
    ELSE IF p <= 1000000 THEN Str("750k-1M")
    ELSE IF p <= 2000000 THEN Str("1M-2M")
    ELSE Str("Over 2M")

\* 6.-10. the derived columns
AddDerived(rows) ==
    [i \in DOMAIN rows |->
        LET r == rows[i]
            ts == r.date_of_transfer
        IN  [transaction_id |-> r.transaction_id,
             price |-> r.price,
             date_of_transfer |-> ts,
             postcode |-> r.postcode,
             district |-> r.district,
             property_type |-> r.property_type,
             year |-> ts.y,
             month |-> ts.m,
             quarter |-> ((ts.m - 1) \div 3) + 1,
             year_month |-> Pad(ts.y, 4) \o "-" \o Pad(ts.m, 2),
             property_type_name |-> MapCell(r.property_type, PROPERTY_TYPES),
             region |-> MapCell(r.district, LONDON_REGIONS),
             postcode_district |-> PostcodeDistrict(r.postcode.val),
             price_band |-> PriceBand(r.price.num)]]

(***************************************************************************)
(* The loaded tables of the model: up to MaxHouseRows rows, each a sale of *)
(* a flat in Camden with at most one cell changed: the price missing or    *)
(* at either side of a limit, the date missing or no date of the calendar, *)
(* the postcode or the district missing, the district in another writing,  *)
(* the property type unknown.                                              *)
(***************************************************************************)
TransactionIds == {"{A}", "{B}"}

PlainSale(id) ==
    [transaction_id |-> id,
     price |-> Num(250000),
     date_of_transfer |-> Str("2023-05-17"),
     postcode |-> Str("SW1A 1AA"),
     district |-> Str("CAMDEN"),
     property_type |-> Str("F")]

HouseRows ==
    UNION {
        {PlainSale(id)}
        \cup {[PlainSale(id) EXCEPT !.price = p] :
                 p \in {NaN, Num(9999), Num(10000), Num(50000000),
                        Num(50000001)}}
        \cup {[PlainSale(id) EXCEPT !.date_of_transfer = d] :
                 d \in {None, Str("2023-02-30")}}
        \cup {[PlainSale(id) EXCEPT !.postcode = None]}
        \cup {[PlainSale(id) EXCEPT !.district = d] :
                 d \in {None, Str(" Camden ")}}
        \cup {[PlainSale(id) EXCEPT !.property_type = Str("X")]}
        : id \in TransactionIds}

RECURSIVE HouseTables(_)
HouseTables(n) ==
    IF n = 0 THEN {<<>>}
    ELSE LET shorter == HouseTables(n - 1)
         IN  shorter \cup
             {Append(rows, r) : rows \in {q \in shorter : Len(q) = n - 1},
                                r \in HouseRows}

\* main(): df_cleaned = clean_data(df) is called on the loaded table.
HouseInit ==
    /\ hraw \in HouseTables(MaxHouseRows)
    /\ hdf = hraw
    /\ hpc = "duplicates"
    /\ ParseIdle
    /\ CleanIdle
    /\ FetchIdle
    /\ LoadIdle
    /\ DashIdle
    /\ MainIdle
    /\ LaterIdle
\* The statements of clean_data, one by one: df becomes the new table.
HouseDropDuplicates ==
    /\ hpc = "duplicates"
    /\ hdf' = DropDuplicates(hdf)
    /\ hpc' = "date"
    /\ UNCHANGED hraw
    /\ UNCHANGED notHouseVars

HouseConvertDate ==
    /\ hpc = "date"
    /\ hdf' = ConvertDate(hdf)
    /\ hpc' = "dropna"
    /\ UNCHANGED hraw
    /\ UNCHANGED notHouseVars

HouseDropNa ==
    /\ hpc = "dropna"
    /\ hdf' = DropNaEssential(hdf)
    /\ hpc' = "outliers"
    /\ UNCHANGED hraw
    /\ UNCHANGED notHouseVars

HouseRemoveOutliers ==
    /\ hpc = "outliers"
    /\ hdf' = RemoveOutliers(hdf)
    /\ hpc' = "district"
    /\ UNCHANGED hraw
    /\ UNCHANGED notHouseVars

HouseStandardiseDistrict ==
    /\ hpc = "district"
    /\ hdf' = StandardiseDistrict(hdf)
    /\ hpc' = "derived"
    /\ UNCHANGED hraw
    /\ UNCHANGED notHouseVars

\* The derived columns, and return df.
HouseDerivedAndReturn ==
    /\ hpc = "derived"
    /\ hdf' = AddDerived(hdf)
    /\ hpc' = "returned"
    /\ UNCHANGED hraw
    /\ UNCHANGED notHouseVars

HouseNext ==
    \/ HouseDropDuplicates
    \/ HouseConvertDate
    \/ HouseDropNa
    \/ HouseRemoveOutliers
    \/ HouseStandardiseDistrict
    \/ HouseDerivedAndReturn

SpecHouse == HouseInit /\ [][HouseNext]_vars

\* The two cleaning functions together: a call of clean_ons_timeseries from
\* process_ons_files, or a call of the housing clean_data.
SpecCleaning ==
    (CleanInit \/ HouseInit) /\ [][CleanNext \/ HouseNext]_vars

(***************************************************************************)
(* C14: the columns that downstream aggregation relies on are never null:  *)
(* every row returned by clean_ons_timeseries has a date that is a         *)
(* timestamp and a value that is a number, and every row returned by the   *)
(* housing clean_data has a price, a date_of_transfer, a postcode and a    *)
(* district that are not null.                                             *)
(***************************************************************************)
C14_ReturnedRowsAreNotNull ==
    /\ cleaned.kind = "df" =>
          \A i \in DOMAIN cleaned.rows :
              /\ cleaned.rows[i].date.kind = "ts"
              /\ ~cleaned.rows[i].value.nan
    /\ hpc = "returned" =>
          \A i \in DOMAIN hdf : \A c \in essential_cols : ~IsNull(hdf[i], c)

\* clean_data returned one row of a table of two, the other one, which it
\* dropped, having no postcode.
C14_Witness ==
    /\ hpc = "returned"
    /\ Len(hraw) = 2
    /\ Len(hdf) = 1
    /\ \E i \in DOMAIN hraw : hraw[i].postcode = None

\* clean_ons_timeseries returned a row of a file that has a row without a
\* number as well.
C14_WitnessOns ==
    /\ cleaned.kind = "df"
    /\ Len(cleaned.rows) = 1
    /\ \E i \in DOMAIN raw : raw[i].value = "x"

(***************************************************************************)
(* C21: every row returned by the housing clean_data has a price between   *)
(* 10,000 and 50,000,000 inclusive and a transaction_id that no other      *)
(* returned row has, and every returned row is one of the input rows: its  *)
(* transaction_id, price, postcode and property type are the cells of one  *)
(* input row, its date that row's date as a timestamp, its district that   *)
(* row's district in capitals without the blanks around it.                *)
(***************************************************************************)
CleanedFrom(out, inp) ==
    /\ out.transaction_id = inp.transaction_id
    /\ out.price = inp.price
    /\ out.postcode = inp.postcode
    /\ out.property_type = inp.property_type
    /\ inp.date_of_transfer.kind = "str"
    /\ out.date_of_transfer = ToDatetime(inp.date_of_transfer.val)
    /\ inp.district.kind = "str"
    /\ out.district = Str(Strip(Upper(inp.district.val)))

C21_ReturnedRowsAreValidInputRows ==
    hpc = "returned" =>
        \A i \in DOMAIN hdf :
            /\ ~hdf[i].price.nan
            /\ hdf[i].price.num >= 10000
            /\ hdf[i].price.num <= 50000000
            /\ \A j \in DOMAIN hdf :
                   hdf[j].transaction_id = hdf[i].transaction_id => j = i
            /\ \E k \in DOMAIN hraw : CleanedFrom(hdf[i], hraw[k])

\* clean_data returned the sale at 50,000,000 of a table that has a sale at
\* 50,000,001, or the sale at 10,000 of a table that has a sale at 9,999.
C21_Witness ==
    /\ hpc = "returned"
    /\ Len(hraw) = 2
    /\ Len(hdf) = 1
    /\ \/ /\ hdf[1].price = Num(50000000)
          /\ \E i \in DOMAIN hraw : hraw[i].price = Num(50000001)
       \/ /\ hdf[1].price = Num(10000)
          /\ \E i \in DOMAIN hraw : hraw[i].price = Num(9999)

(***************************************************************************)
(* C23: clean_data removes duplicates before it validates rows: of each    *)
(* transaction_id only the first row of the input is considered.  When     *)
(* that row is rejected (an essential cell missing, a date that is no      *)
(* date, a price out of range) no row of that transaction_id is returned,  *)
(* even if a later row of it was valid; when it is not rejected, the one   *)
(* returned row of that transaction_id comes from it.                      *)
(***************************************************************************)
FirstOccurrence(rows, id) ==
    rows[CHOOSE i \in DOMAIN rows :
             /\ rows[i].transaction_id = id
             /\ \A j \in 1..(i - 1) : rows[j].transaction_id # id]

Rejected(row) ==
    \/ row.price.nan
    \/ row.price.num < 10000
    \/ row.price.num > 50000000
    \/ row.date_of_transfer.kind # "str"
    \/ ToDatetime(row.date_of_transfer.val).kind # "ts"
    \/ row.postcode.kind # "str"
    \/ row.district.kind # "str"

C23_FirstOccurrenceDecides ==
    hpc = "returned" =>
        \A id \in {hraw[k].transaction_id : k \in DOMAIN hraw} :
            LET outs == {i \in DOMAIN hdf : hdf[i].transaction_id = id}
            IN  IF Rejected(FirstOccurrence(hraw, id))
                THEN outs = {}
                ELSE /\ Cardinality(outs) = 1
                     /\ \A i \in outs :
                            CleanedFrom(hdf[i], FirstOccurrence(hraw, id))

\* Two rows of one transaction_id, the first one rejected and the second
\* one a valid sale: clean_data returned no row.
C23_Witness ==
    /\ hpc = "returned"
    /\ Len(hraw) = 2
    /\ hraw[1].transaction_id = hraw[2].transaction_id
    /\ Rejected(hraw[1])
    /\ ~Rejected(hraw[2])
    /\ hdf = <<>>

(***************************************************************************)
(* filter_london_data of the download script                               *)
(* (projects/uk-housing-market/src/01_download_data.py), and the path of   *)
(* a yearly file through it into clean_data.                               *)
(***************************************************************************)
london_districts ==
    {"CITY OF LONDON", "BARKING AND DAGENHAM", "BARNET", "BEXLEY",
     "BRENT", "BROMLEY", "CAMDEN", "CROYDON", "EALING", "ENFIELD",
     "GREENWICH", "HACKNEY", "HAMMERSMITH AND FULHAM", "HARINGEY",
     "HARROW", "HAVERING", "HILLINGDON", "HOUNSLOW", "ISLINGTON",
     "KENSINGTON AND CHELSEA", "KINGSTON UPON THAMES", "LAMBETH",
     "LEWISHAM", "MERTON", "NEWHAM", "REDBRIDGE", "RICHMOND UPON THAMES",
     "SOUTHWARK", "SUTTON", "TOWER HAMLETS", "WALTHAM FOREST",
     "WANDSWORTH", "WESTMINSTER"}

\* A filter that strips the district before it looks it up.
FilterLondonDataStripped(rows) ==
    SelectSeq(rows, LAMBDA r : /\ r.district.kind = "str"
                               /\ Strip(Upper(r.district.val))
                                      \in london_districts)

\* chunk[chunk['district'].str.upper().isin(london_districts)]: a missing
\* district is in no list; the rows are saved as they were read.
FilterLondonData(rows) ==
    SelectSeq(rows, LAMBDA r : /\ r.district.kind = "str"
                               /\ Upper(r.district.val) \in london_districts)

(***************************************************************************)
(* The yearly files of the model: up to MaxPipeRows rows, each a sale      *)
(* whose district is one of the London districts, a London district in     *)
(* another writing (small letters, blanks around it), a district outside   *)
(* London or missing, and whose price is in range or below it.             *)
(***************************************************************************)
MaxPipeRows == 1

PipeDistricts ==
    {Str(d) : d \in london_districts}
    \cup {Str("camden"), Str("City of London"), Str(" CAMDEN "),
          Str("CAMDEN "), Str("MANCHESTER"), Str("CITY OF WESTMINSTER"),
          None}

PipeRows ==
    {[PlainSale("{A}") EXCEPT !.district = d, !.price = p] :
        d \in PipeDistricts, p \in {Num(250000), Num(9999)}}

RECURSIVE PipeTables(_)
PipeTables(n) ==
    IF n = 0 THEN {<<>>}
    ELSE LET shorter == PipeTables(n - 1)
         IN  shorter \cup
             {Append(rows, r) : rows \in {q \in shorter : Len(q) = n - 1},
                                r \in PipeRows}

\* main() of the download script has a yearly file to filter.
PipeInit ==
    /\ pp \in PipeTables(MaxPipeRows)
    /\ hpc = "filter"
    /\ hraw = <<>>
    /\ hdf = <<>>
    /\ ParseIdle
    /\ CleanIdle
    /\ MainIdle
    /\ FetchIdle
    /\ LoadIdle
    /\ DashIdle
    /\ PerfIdle
    /\ DlIdle
    /\ RerunIdle
    /\ DeriveIdle

\* filter_london_data(filepath, output_file) saves the London rows as
\* london-pp-<year>.csv; load_london_data of the cleaning script reads
\* them, and main() calls clean_data on them.
FilterLondon ==
    /\ hpc = "filter"
    /\ hraw' = FilterLondonData(pp)
    /\ hdf' = hraw'
    /\ hpc' = "duplicates"
    /\ UNCHANGED notHouseVars

PipeNext ==
    \/ FilterLondon
    \/ HouseNext

SpecPipe == PipeInit /\ [][PipeNext]_vars

(***************************************************************************)
(* C24: every transaction that passes filter_london_data and then          *)
(* clean_data has a region that is not null: each of the 33 districts the  *)
(* filter accepts has an entry in LONDON_REGIONS, and the two writings of  *)
(* the district (capitals in the filter, capitals without the blanks       *)
(* around it in the cleaning) are the same for every row the filter        *)
(* accepted.                                                               *)
(***************************************************************************)
C24_FilteredRowsHaveARegion ==
    /\ Cardinality(london_districts) = 33
    /\ london_districts \subseteq DOMAIN LONDON_REGIONS
    /\ hpc # "filter" =>
          \A i \in DOMAIN hraw :
              Strip(Upper(hraw[i].district.val)) = Upper(hraw[i].district.val)
    /\ hpc = "returned" =>
          \A i \in DOMAIN hdf : hdf[i].region.kind = "str"

\* A sale whose district is written "camden" passed the filter and the
\* cleaning: its region is Central.
C24_Witness ==
    /\ hpc = "returned"
    /\ Len(pp) = 1
    /\ pp[1].district = Str("camden")
    /\ Len(hdf) = 1
    /\ hdf[1].district = Str("CAMDEN")
    /\ hdf[1].region = Str("Central")

\* A sale whose district is written " CAMDEN " did not pass the filter.
C24_WitnessRejected ==
    /\ hpc = "returned"
    /\ Len(pp) = 1
    /\ pp[1].district = Str(" CAMDEN ")
    /\ pp[1].price = Num(250000)
    /\ hdf = <<>>

(***************************************************************************)
(* The dashboards (app.py of the three projects).  The housing dashboard   *)
(* filters the table "df", the cost-of-living dashboard the table "cpi"    *)
(* of its data, the FTSE dashboard the table "perf" of performance rows.   *)
(***************************************************************************)
\* df[col].unique(): the values of one column of a table.
Unique(rows, col) == {rows[i][col] : i \in DOMAIN rows}

Min(S) == CHOOSE x \in S : \A y \in S : x <= y
Max(S) == CHOOSE x \in S : \A y \in S : x >= y

\* The numbers of a column in ascending order, each as often as it occurs.
RECURSIVE Sorted(_)
Sorted(nums) ==
    IF nums = <<>> THEN <<>>
    ELSE LET m == Min({nums[i] : i \in DOMAIN nums})
             at == CHOOSE i \in DOMAIN nums : nums[i] = m
         IN  <<m>> \o Sorted(SubSeq(nums, 1, at - 1)
                             \o SubSeq(nums, at + 1, Len(nums)))

\* int(df['price'].quantile(0.99)): the value at 0.99 of the way through
\* the sorted prices, between two of them in proportion.
Quantile99(prices) ==
    LET sorted == Sorted(prices)
        at == 99 * (Len(sorted) - 1)
        k == (at \div 100) + 1
    IN  IF k = Len(sorted) THEN sorted[k]
        ELSE sorted[k] + ((sorted[k + 1] - sorted[k]) * (at % 100)) \div 100

\* The bounds of the price slider of the housing dashboard.
PriceSliderMin(df) == Min(Unique(df, "price"))

\* A slider that goes up to the highest price.
PriceSliderMaxIsHighest(df) == Max(Unique(df, "price"))

\* max_price = int(df['price'].quantile(0.99))
PriceSliderMax(df) == Quantile99([i \in DOMAIN df |-> df[i].price])

\* A price filter that leaves out the two ends of the range.
InPriceRangeOpen(price, lo, hi) == price > lo /\ price < hi

\* (df['price'] >= price_range[0]) & (df['price'] <= price_range[1])
InPriceRange(price, lo, hi) == price >= lo /\ price <= hi

\* filtered_df of the housing dashboard.
HousingFiltered(df, st) ==
    SelectSeq(df, LAMBDA r :
        /\ r.year \in st.selected_years
        /\ r.district \in st.selected_boroughs
        /\ r.property_type_name \in st.selected_types
        /\ InPriceRange(r.price, st.price_range[1], st.price_range[2]))

\* The KPI metrics of the housing dashboard that count and add up the
\* rows of filtered_df: len(filtered_df) and filtered_df['price'].sum().
TotalTransactions(filtered_df) == Len(filtered_df)

RECURSIVE TotalMarketValue(_)
TotalMarketValue(filtered_df) ==
    IF filtered_df = <<>> THEN 0
    ELSE Head(filtered_df).price + TotalMarketValue(Tail(filtered_df))

\* cpi_filtered of the cost-of-living dashboard.
CpiFiltered(cpi, st) ==
    SelectSeq(cpi, LAMBDA r :
        r.year >= st.year_range[1] /\ r.year <= st.year_range[2])

\* stocks_perf and filtered_perf of the FTSE dashboard.
StocksPerf(perf) == SelectSeq(perf, LAMBDA r : r.Sector # "Index")

FilteredPerf(perf, st) ==
    IF st.selected_sector # "All Sectors"
    THEN SelectSeq(StocksPerf(perf), LAMBDA r : r.Sector = st.selected_sector)
    ELSE StocksPerf(perf)

\* The table of data that each option of "Select Dataset" stands for.
DatasetTable ==
    ("CPI Data" :> "cpi") @@ ("Regional Prices" :> "regional") @@
    ("Wages" :> "wages") @@ ("Basket of Goods" :> "basket")

\* df_display of the data explorer of the cost-of-living dashboard.
DfDisplay(t, st, ds) ==
    IF ds = "CPI Data" THEN CpiFiltered(t["cpi"], st)
    ELSE IF DatasetTable[ds] \in DOMAIN t THEN t[DatasetTable[ds]]
    ELSE <<>>

\* One run of the script of a dashboard: the filtered table, and the data
\* it gives to its download button.
RunScript(d, t, st, ds) ==
    CASE d = "housing" ->
             [view |-> HousingFiltered(t["df"], st),
              csv |-> Df(HousingFiltered(t["df"], st))]
      [] d = "col" ->
             [view |-> CpiFiltered(t["cpi"], st),
              csv |-> IF Len(DfDisplay(t, st, ds)) > 0
                      THEN Df(DfDisplay(t, st, ds))
                      ELSE NoDf]
      [] d = "ftse" ->
             [view |-> FilteredPerf(t["perf"], st),
              csv |-> Df(FilteredPerf(t["perf"], st))]

\* The values the widgets have when a session starts.
DefaultSettings(d, t) ==
    CASE d = "housing" ->
             [selected_years |-> Unique(t["df"], "year"),
              selected_boroughs |-> Unique(t["df"], "district"),
              selected_types |-> Unique(t["df"], "property_type_name"),
              price_range |-> <<PriceSliderMin(t["df"]),
                                PriceSliderMax(t["df"])>>]
      [] d = "col" ->
             [year_range |-> <<2015, Max(Unique(t["cpi"], "year"))>>]
      [] d = "ftse" -> [selected_sector |-> "All Sectors"]

(***************************************************************************)
(* The loaded tables of the model.                                         *)
(***************************************************************************)
\* The rows of a set of rows that all have an id, in the order of the ids.
RECURSIVE InIdOrder(_)
InIdOrder(S) ==
    IF S = {} THEN <<>>
    ELSE LET r == CHOOSE x \in S : \A y \in S : x.id <= y.id
         IN  <<r>> \o InIdOrder(S \ {r})

SalesPool ==
    {[id |-> 1, year |-> 2023, district |-> "CAMDEN",
      property_type_name |-> "Flat/Maisonette", price |-> 100000],
     [id |-> 2, year |-> 2024, district |-> "BARNET",
      property_type_name |-> "Detached", price |-> 300000],
     [id |-> 3, year |-> 2024, district |-> "CAMDEN",
      property_type_name |-> "Detached", price |-> 900000],
     [id |-> 4, year |-> 2023, district |-> "BARNET",
      property_type_name |-> "Flat/Maisonette", price |-> 300000]}

\* Two sales at least, of two prices, so that the price slider has a range.
HousingTables ==
    {[n \in {"df"} |-> InIdOrder(S)] :
        S \in {T \in SUBSET SalesPool :
                  /\ Cardinality(T) >= 2
                  /\ Cardinality(T) <= MaxDashRows
                  /\ Cardinality({r.price : r \in T}) >= 2}}

CpiPool ==
    {[id |-> y, year |-> y, table |-> "cpi"] : y \in {2014, 2015, 2016}}

\* The other tables of the cost-of-living data, when their files exist.
OtherTables ==
    [regional |-> <<[id |-> 1, year |-> 2016, table |-> "regional"]>>,
     wages |-> <<[id |-> 1, year |-> 2014, table |-> "wages"],
                 [id |-> 2, year |-> 2016, table |-> "wages"]>>,
     basket |-> <<[id |-> 1, year |-> 2014, table |-> "basket"]>>]

\* The CPI rows are of two years at least, 2015 within them, so that the
\* year slider has a range and its default value lies in it.
ColTables ==
    {[n \in {"cpi"} \cup others |->
         IF n = "cpi" THEN InIdOrder(S) ELSE OtherTables[n]] :
        S \in {T \in SUBSET CpiPool :
                  /\ Cardinality(T) >= 2
                  /\ Cardinality(T) <= MaxDashRows
                  /\ \E r \in T : r.year <= 2015
                  /\ \E r \in T : r.year >= 2015},
        others \in SUBSET {"regional", "wages", "basket"}}

StocksPool ==
    {[id |-> 1, Company |-> "Shell", Sector |-> "Energy"],
     [id |-> 2, Company |-> "BP", Sector |-> "Energy"],
     [id |-> 3, Company |-> "HSBC", Sector |-> "Banking"]}

\* The performance rows of some stocks, and the row of the index.
FtseTables ==
    {[n \in {"perf"} |->
         InIdOrder(S \cup {[id |-> 0, Company |-> "FTSE 100",
                            Sector |-> "Index"]})] :
        S \in {T \in SUBSET StocksPool :
                  Cardinality(T) >= 1 /\ Cardinality(T) <= MaxDashRows}}

TablesOf(d) ==
    CASE d = "housing" -> HousingTables
      [] d = "col" -> ColTables
      [] d = "ftse" -> FtseTables

\* The session starts: the data is loaded and the script runs once.
DashInit ==
    /\ dash \in {"housing", "col", "ftse"}
    /\ tables \in TablesOf(dash)
    /\ settings = DefaultSettings(dash, tables)
    /\ dataset = IF dash = "col" THEN "CPI Data" ELSE ""
    /\ view = RunScript(dash, tables, settings, dataset).view
    /\ csv = RunScript(dash, tables, settings, dataset).csv
    /\ downloaded = NoDf
    /\ ParseIdle
    /\ CleanIdle
    /\ FetchIdle
    /\ LoadIdle
    /\ HouseIdle
    /\ MainIdle
    /\ LaterIdle
\* A widget got the value that makes the settings st and the dataset ds:
\* the script runs again.
DashRerun(st, ds) ==
    /\ <<st, ds>> # <<settings, dataset>>
    /\ settings' = st
    /\ dataset' = ds
    /\ view' = RunScript(dash, tables, st, ds).view
    /\ csv' = RunScript(dash, tables, st, ds).csv
    /\ downloaded' = NoDf
    /\ UNCHANGED <<dash, tables>>
    /\ UNCHANGED notDashVars

\* The multiselect "Select Year(s)" of the housing dashboard.
ChangeYears ==
    /\ dash = "housing"
    /\ \E sel \in SUBSET Unique(tables["df"], "year") :
          DashRerun([settings EXCEPT !.selected_years = sel], dataset)

\* The multiselect "Select Borough(s)".
ChangeBoroughs ==
    /\ dash = "housing"
    /\ \E sel \in SUBSET Unique(tables["df"], "district") :
          DashRerun([settings EXCEPT !.selected_boroughs = sel], dataset)

\* The multiselect "Select Property Type(s)".
ChangeTypes ==
    /\ dash = "housing"
    /\ \E sel \in SUBSET Unique(tables["df"], "property_type_name") :
          DashRerun([settings EXCEPT !.selected_types = sel], dataset)

\* The slider "Price Range": its two ends are put on a bound of the slider
\* or on a price of the table within the bounds.
ChangePriceRange ==
    /\ dash = "housing"
    /\ LET lo == PriceSliderMin(tables["df"])
           hi == PriceSliderMax(tables["df"])
           stops == {lo, hi} \cup {p \in Unique(tables["df"], "price") :
                                       p >= lo /\ p <= hi}
       IN  \E a \in stops, b \in stops :
              /\ a <= b
              /\ DashRerun([settings EXCEPT !.price_range = <<a, b>>], dataset)

\* The slider "Select Year Range" of the cost-of-living dashboard.
ChangeYearRange ==
    /\ dash = "col"
    /\ LET years == Unique(tables["cpi"], "year")
       IN  \E a \in Min(years)..Max(years), b \in Min(years)..Max(years) :
              /\ a <= b
              /\ DashRerun([settings EXCEPT !.year_range = <<a, b>>], dataset)

\* The selectbox "Select Dataset" of its data explorer.
SelectDataset ==
    /\ dash = "col"
    /\ \E ds \in DOMAIN DatasetTable : DashRerun(settings, ds)

\* The selectbox "Select Sector" of the FTSE dashboard.
SelectSector ==
    /\ dash = "ftse"
    /\ \E sec \in {"All Sectors"} \cup Unique(StocksPerf(tables["perf"]), "Sector") :
          DashRerun([settings EXCEPT !.selected_sector = sec], dataset)

\* The user clicks the download button of the last run.
ClickDownload ==
    /\ csv.kind = "df"
    /\ downloaded = NoDf
    /\ downloaded' = csv
    /\ UNCHANGED <<dash, tables, settings, dataset, view, csv>>
    /\ UNCHANGED notDashVars

DashNext ==
    \/ ChangeYears
    \/ ChangeBoroughs
    \/ ChangeTypes
    \/ ChangePriceRange
    \/ ChangeYearRange
    \/ SelectDataset
    \/ SelectSector
    \/ ClickDownload

SpecDash == DashInit /\ [][DashNext]_vars

\* The loaded table whose rows the session shows: the table the housing
\* and FTSE dashboards filter, the table of the chosen dataset.
ShownTable ==
    CASE dash = "housing" -> tables["df"]
      [] dash = "col" ->
             IF DatasetTable[dataset] \in DOMAIN tables
             THEN tables[DatasetTable[dataset]] ELSE <<>>
      [] dash = "ftse" -> tables["perf"]

\* Whether a loaded row passes every filter that is set now.
PassesFiltersSet(r) ==
    CASE dash = "housing" ->
             /\ r.year \in settings.selected_years
             /\ r.district \in settings.selected_boroughs
             /\ r.property_type_name \in settings.selected_types
             /\ settings.price_range[1] <= r.price
             /\ r.price <= settings.price_range[2]
      [] dash = "col" ->
             /\ settings.year_range[1] <= r.year
             /\ r.year <= settings.year_range[2]
      [] dash = "ftse" ->
             /\ r.Sector # "Index"
             /\ settings.selected_sector \in {"All Sectors", r.Sector}

(***************************************************************************)
(* C15: in each dashboard the CSV of the download action holds exactly the *)
(* rows of the current filtered view: for every setting of the filters and *)
(* every dataset the user can select, a row of the loaded table is in the  *)
(* file if and only if it passes the filters set at the click.             *)
(***************************************************************************)
C15_DownloadIsTheFilteredView ==
    downloaded.kind = "df" =>
        downloaded.rows = SelectSeq(ShownTable, PassesFiltersSet)

\* The filtered table of each dashboard, as its loaded rows.
FilteredTable ==
    CASE dash = "housing" -> tables["df"]
      [] dash = "col" -> tables["cpi"]
      [] dash = "ftse" -> tables["perf"]

C16_ViewIsTheSubset ==
    dash # "none" => view = SelectSeq(FilteredTable, PassesFiltersSet)

(***************************************************************************)
(* C16: the filters only subset the in-memory table: the filtered view is  *)
(* exactly the loaded rows that satisfy the conjunction of the filters     *)
(* that are set (housing: the year, the borough and the property type in   *)
(* their selections and the price within the slider range, its two ends    *)
(* included), and no step of a session changes the loaded table.           *)
(***************************************************************************)
C16_FiltersOnlySubset ==
    /\ []C16_ViewIsTheSubset
    /\ [][tables' = tables]_vars

\* The housing dashboard shows one sale of two: the price range ends at
\* the price of the sale shown, and the other sale is outside the range.
C16_Witness ==
    /\ dash = "housing"
    /\ Len(tables["df"]) = 2
    /\ Len(view) = 1
    /\ settings.price_range[2] = view[1].price
    /\ settings.selected_years = Unique(tables["df"], "year")
    /\ settings.selected_boroughs = Unique(tables["df"], "district")
    /\ settings.selected_types = Unique(tables["df"], "property_type_name")

(***************************************************************************)
(* C27: in the housing dashboard the upper bound of the price slider is    *)
(* the 99th percentile of the loaded prices, so for every filter setting,  *)
(* the default one included, a loaded row whose price is above that        *)
(* percentile is absent from the filtered view, from the KPI metrics and   *)
(* from the downloaded CSV.                                                *)
(***************************************************************************)
LoadedPrices == [i \in DOMAIN tables["df"] |-> tables["df"][i].price]

\* The loaded rows whose price is not above the 99th percentile.
RowsUpToPercentile ==
    SelectSeq(tables["df"], LAMBDA r : r.price <= Quantile99(LoadedPrices))

RowsAbovePercentile ==
    {tables["df"][i] : i \in {j \in DOMAIN tables["df"] :
                                 tables["df"][j].price >
                                     Quantile99(LoadedPrices)}}

C27_RowsAbovePercentileAreAbsent ==
    dash = "housing" =>
        /\ settings.price_range[2] <= Quantile99(LoadedPrices)
        /\ \A r \in RowsAbovePercentile :
               /\ \A i \in DOMAIN view : view[i] # r
               /\ \A i \in DOMAIN csv.rows : csv.rows[i] # r
               /\ \A i \in DOMAIN downloaded.rows : downloaded.rows[i] # r
        /\ TotalTransactions(view) =
               TotalTransactions(HousingFiltered(RowsUpToPercentile, settings))
        /\ TotalMarketValue(view) =
               TotalMarketValue(HousingFiltered(RowsUpToPercentile, settings))

\* With the filters as the session starts, the user downloaded the CSV:
\* the dearest of the two loaded sales is not in it.
C27_Witness ==
    /\ dash = "housing"
    /\ settings = DefaultSettings("housing", tables)
    /\ Len(tables["df"]) = 2
    /\ RowsAbovePercentile # {}
    /\ downloaded.kind = "df"
    /\ Len(downloaded.rows) = 1
    /\ TotalTransactions(view) = 1

(***************************************************************************)
(* The steps 3 to 8 of main() of the cost-of-living cleaning script.  A    *)
(* row of the master table is [date, year, month, cols], as a row of the   *)
(* merged table; the numbers are in tenths.                                *)
(***************************************************************************)
category_cols ==
    {"food_beverages", "alcohol_tobacco", "clothing_footwear",
     "housing_energy", "furniture_household", "health", "transport",
     "communication", "recreation_culture", "education",
     "restaurants_hotels", "miscellaneous"}

\* The columns of a table of rows with cols.
ColumnsOf(rows) == IF rows = <<>> THEN {} ELSE DOMAIN rows[1].cols

\* A choice of the columns of the generated table that takes them all.
GenSubsetColsAll(gen) == ColumnsOf(gen)

\* [c for c in category_cols if c in gen.columns]
GenSubsetCols(gen) == category_cols \cap ColumnsOf(gen)

\* The row l with the columns names added, from the row r of the right
\* table, or as NaN when there is no such row (r is None).
WithColumns(l, names, r) ==
    [l EXCEPT !.cols = [c \in DOMAIN l.cols \cup names |->
                            IF c \in names
                            THEN (IF r = None THEN NaN ELSE r.cols[c])
                            ELSE l.cols[c]]]

\* master.merge(gen_subset, on='date', how='left')
RECURSIVE LeftMergeCols(_, _, _)
LeftMergeCols(left, right, names) ==
    IF left = <<>> THEN <<>>
    ELSE LET l == Head(left)
             matches == SelectSeq(right, LAMBDA r : r.date = l.date)
         IN  (IF matches = <<>>
              THEN <<WithColumns(l, names, None)>>
              ELSE [i \in DOMAIN matches |-> WithColumns(l, names, matches[i])])
             \o LeftMergeCols(Tail(left), right, names)

\* create_master_cpi_table
CreateMasterCpiTable(ons_merged, gen_data) ==
    IF ons_merged.kind = "df" /\ Len(ons_merged.rows) > 0
    THEN IF "cpi_categories" \in DOMAIN gen_data
         THEN Df(LeftMergeCols(ons_merged.rows, gen_data["cpi_categories"],
                               GenSubsetCols(gen_data["cpi_categories"])))
         ELSE ons_merged
    ELSE IF "cpi_categories" \in DOMAIN gen_data
         THEN Df(gen_data["cpi_categories"])
         ELSE Df(<<>>)

\* A classification whose bands take their upper limit in.
classify_inflation_closed(rate) ==
    IF rate.nan THEN "Unknown"
    ELSE IF rate.num <= 0 THEN "Deflation"
    ELSE IF rate.num <= 10 THEN "Very Low"
    ELSE IF rate.num <= 20 THEN "Below Target"
    ELSE IF rate.num <= 30 THEN "On Target"
    ELSE IF rate.num <= 50 THEN "Elevated"
    ELSE IF rate.num <= 100 THEN "High"
    ELSE "Very High"

\* classify_inflation, the rate in tenths of a percent.
classify_inflation(rate) ==
    IF rate.nan THEN "Unknown"
    ELSE IF rate.num < 0 THEN "Deflation"
    ELSE IF rate.num < 10 THEN "Very Low"
    ELSE IF rate.num < 20 THEN "Below Target"
    ELSE IF rate.num < 30 THEN "On Target"
    ELSE IF rate.num < 50 THEN "Elevated"
    ELSE IF rate.num < 100 THEN "High"
    ELSE "Very High"

\* Series.diff(12) at the row i.
Diff12(rows, i) ==
    IF i <= 12 \/ rows[i].cols["cpi_annual"].nan
               \/ rows[i - 12].cols["cpi_annual"].nan
    THEN NaN
    ELSE Num(rows[i].cols["cpi_annual"].num - rows[i - 12].cols["cpi_annual"].num)

\* calculate_derived_metrics: the table sorted by date and, when it has
\* the column cpi_annual, the columns derived from it (the cumulative
\* inflation, a product of floats, is not among the columns of the model).
CalculateDerivedMetrics(df) ==
    IF df.kind # "df" \/ Len(df.rows) = 0 THEN df
    ELSE LET sorted == SortByDate(df.rows)
         IN  IF "cpi_annual" \notin ColumnsOf(sorted) THEN Df(sorted)
             ELSE Df([i \in DOMAIN sorted |->
                        LET rate == sorted[i].cols["cpi_annual"]
                            derived ==
                                [cpi_yoy_change |-> Diff12(sorted, i),
                                 above_target |-> ~rate.nan /\ rate.num > 20,
                                 deviation_from_target |->
                                     IF rate.nan THEN NaN
                                     ELSE Num(rate.num - 20),
                                 inflation_regime |-> classify_inflation(rate)]
                        IN  [sorted[i] EXCEPT !.cols = derived @@ @]])

\* The tables create_sqlite_database saves with to_sql.
TablesSaved(master, gen_data) ==
    (IF master.kind = "df" /\ Len(master.rows) > 0 THEN {"cpi_data"} ELSE {})
    \cup (IF "regional_prices" \in DOMAIN gen_data
          THEN {"regional_prices"} ELSE {})
    \cup (IF "wages" \in DOMAIN gen_data THEN {"wages"} ELSE {})
    \cup (IF "basket" \in DOMAIN gen_data THEN {"basket_of_goods"} ELSE {})

\* The tables its CREATE INDEX statements name: a table that is not there
\* makes the statement raise sqlite3.OperationalError.
IndexedTables == {"cpi_data", "regional_prices", "wages", "basket_of_goods"}

\* The files save_processed_files writes.
FilesSaved(master, gen_data) ==
    (IF master.kind = "df" /\ Len(master.rows) > 0
     THEN {"master_cpi_data.csv"} ELSE {})
    \cup (IF "regional_prices" \in DOMAIN gen_data
          THEN {"regional_prices_clean.csv"} ELSE {})
    \cup (IF "wages" \in DOMAIN gen_data THEN {"wages_clean.csv"} ELSE {})

\* A main() that goes on to step 7 however step 6 ended.
AfterDatabaseGoesOn(status) == "save"

\* main() after create_sqlite_database: the function has no except clause
\* (try ... finally), so that an error in it leaves main().
AfterDatabase(status) == IF status = "error" THEN "crashed" ELSE "save"

(***************************************************************************)
(* The generated files of the model: the table of CPI categories has a     *)
(* row for January and one for March of the first year, with two of the    *)
(* category columns.                                                       *)
(***************************************************************************)
GeneratedTables ==
    [cpi_categories |->
        [i \in 1..2 |->
            [date |-> Ts(FirstYear, 2 * i - 1, 1),
             year |-> FirstYear,
             month |-> 2 * i - 1,
             cols |-> [c \in {"cpi_annual", "cpih_annual", "food_beverages",
                              "transport"} |->
                          IF c = "cpi_annual" THEN Num(40 - 15 * i)
                          ELSE Num(44)]]],
     regional_prices |-> <<[year |-> FirstYear, region |-> "London"]>>,
     wages |-> <<[year |-> FirstYear, date |-> Ts(FirstYear, 1, 1)]>>,
     basket |-> <<[year |-> FirstYear, item |-> "Bread"]>>]

\* Which of the generated files exist: all, all but one, or none.
GeneratedFiles ==
    {DOMAIN GeneratedTables,
     DOMAIN GeneratedTables \ {"cpi_categories"},
     DOMAIN GeneratedTables \ {"wages"},
     {}}

\* What step 3 to 8 leave alone.
keptByMain ==
    <<idx, raw, cleaned, processed_dfs, merged,
      parseVars, fetchVars, loadVars, houseVars, dashVars, laterVars>>

\* Step 3: generated_data = process_generated_data()
ProcessGeneratedData ==
    /\ fpc = "merged"
    /\ \E files \in GeneratedFiles :
          generated_data' = [n \in files |-> GeneratedTables[n]]
    /\ steps' = Append(steps, "process_generated_data")
    /\ fpc' = "master"
    /\ UNCHANGED <<master_cpi, db, written>>
    /\ UNCHANGED keptByMain

\* Step 4: master_cpi = create_master_cpi_table(ons_merged, generated_data)
CreateMaster ==
    /\ fpc = "master"
    /\ master_cpi' = CreateMasterCpiTable(merged, generated_data)
    /\ steps' = Append(steps, "create_master_cpi_table")
    /\ fpc' = "derive"
    /\ UNCHANGED <<generated_data, db, written>>
    /\ UNCHANGED keptByMain

\* Step 5: master_cpi = calculate_derived_metrics(master_cpi)
DeriveMetrics ==
    /\ fpc = "derive"
    /\ master_cpi' = CalculateDerivedMetrics(master_cpi)
    /\ steps' = Append(steps, "calculate_derived_metrics")
    /\ fpc' = "database"
    /\ UNCHANGED <<generated_data, db, written>>
    /\ UNCHANGED keptByMain

\* Step 6: create_sqlite_database(master_cpi, generated_data).  It ends
\* with an error when an indexed table was not saved, and may do so when
\* the file cannot be written.
CreateDatabase ==
    /\ fpc = "database"
    /\ \E io \in {"ok", "error"} :
          LET saved == TablesSaved(master_cpi, generated_data)
              status == IF io = "ok" /\ IndexedTables \subseteq saved
                        THEN "ok" ELSE "error"
          IN  /\ db' = [status |-> status,
                        tables |-> IF io = "ok" THEN saved ELSE {}]
              /\ steps' = IF status = "ok"
                          THEN Append(steps, "create_sqlite_database")
                          ELSE steps
              /\ fpc' = AfterDatabase(status)
    /\ UNCHANGED <<generated_data, master_cpi, written>>
    /\ UNCHANGED keptByMain

\* Step 7: save_processed_files(master_cpi, generated_data)
SaveProcessedFiles ==
    /\ fpc = "save"
    /\ written' = FilesSaved(master_cpi, generated_data)
    /\ steps' = Append(steps, "save_processed_files")
    /\ fpc' = "summary"
    /\ UNCHANGED <<generated_data, master_cpi, db>>
    /\ UNCHANGED keptByMain

\* Step 8: print_data_summary(master_cpi, generated_data), and the end of
\* main().
PrintDataSummary ==
    /\ fpc = "summary"
    /\ steps' = Append(steps, "print_data_summary")
    /\ fpc' = "done"
    /\ UNCHANGED <<generated_data, master_cpi, db, written>>
    /\ UNCHANGED keptByMain

MainNext ==
    \/ CleanNext
    \/ ProcessGeneratedData
    \/ CreateMaster
    \/ DeriveMetrics
    \/ CreateDatabase
    \/ SaveProcessedFiles
    \/ PrintDataSummary

SpecMain == CleanInit /\ [][MainNext]_vars

\* The eight steps of main(), in source order.
MainSteps ==
    <<"process_ons_files", "merge_cpi_data", "process_generated_data",
      "create_master_cpi_table", "calculate_derived_metrics",
      "create_sqlite_database", "save_processed_files",
      "print_data_summary">>

\* The steps that have returned so far, in the order of their return.
StepsReturned ==
    (CASE fpc = "files" -> <<>>
       [] fpc = "merge" -> <<"process_ons_files">>
       [] OTHER -> <<"process_ons_files", "merge_cpi_data">>)
    \o steps

(***************************************************************************)
(* C17: the cleaning script runs its eight steps in source order and one   *)
(* at a time: the steps that have returned are always the first ones of    *)
(* the list, and the processed CSV files are written only when the         *)
(* database step has returned without an error.                            *)
(***************************************************************************)
C17_StepsInSourceOrder ==
    /\ StepsReturned = SubSeq(MainSteps, 1, Len(StepsReturned))
    /\ (fpc \in {"summary", "done"} \/ written # {}) =>
          /\ db.status = "ok"
          /\ \E i \in DOMAIN StepsReturned :
                StepsReturned[i] = "create_sqlite_database"

\* main() returned after writing the three processed CSV files.
C17_Witness ==
    /\ fpc = "done"
    /\ Len(StepsReturned) = Len(MainSteps)
    /\ Cardinality(written) = 3

\* The database step failed and main() ended there.
C17_WitnessCrash ==
    /\ fpc = "crashed"
    /\ db.status = "error"
    /\ written = {}

(***************************************************************************)
(* C20: when no cpi_annual series was cleaned, merge_cpi_data returns None *)
(* and the master table is the generated table of CPI categories; when     *)
(* there is one, the master table has the rows and the columns of the      *)
(* merged ONS table, and the generated data adds category columns only.    *)
(***************************************************************************)
C20_MasterFromOnsOrGenerated ==
    /\ fpc \notin {"files", "merge"} =>
          (merged = NoDf <=> "cpi_annual" \notin DOMAIN processed_dfs)
    /\ fpc = "derive" =>
          IF merged = NoDf
          THEN "cpi_categories" \in DOMAIN generated_data =>
                   master_cpi = Df(generated_data["cpi_categories"])
          ELSE /\ Len(master_cpi.rows) = Len(merged.rows)
               /\ \A i \in DOMAIN merged.rows :
                     /\ master_cpi.rows[i].date = merged.rows[i].date
                     /\ \A c \in DOMAIN merged.rows[i].cols :
                           master_cpi.rows[i].cols[c] = merged.rows[i].cols[c]
                     /\ (DOMAIN master_cpi.rows[i].cols)
                            \ (DOMAIN merged.rows[i].cols) \subseteq category_cols

\* The master table was built from an ONS table without the cpih_annual
\* series, and it got a category column from the generated table.
C20_Witness ==
    /\ fpc = "derive"
    /\ merged.kind = "df"
    /\ "cpih_annual" \notin ColumnsOf(merged.rows)
    /\ "transport" \in ColumnsOf(master_cpi.rows)

\* There was no cpi_annual series, and the master table is the generated
\* one.
C20_WitnessFallback ==
    /\ fpc = "derive"
    /\ merged = NoDf
    /\ master_cpi.kind = "df"
    /\ Len(master_cpi.rows) = 2

(***************************************************************************)
(* C18: every result of parse_ons_date that is not the failure signal is   *)
(* a real calendar date written YYYY-MM-DD, whatever the first word of     *)
(* the token: a token of two words whose second is in the table and whose  *)
(* first is no year of four digits is reported as failure.                 *)
(***************************************************************************)
C18_ResultIsACalendarDate ==
    (Finished /\ ret.kind = "str") =>
        /\ IsIsoLike(ret.val)
        /\ Char(ret.val, 5) = "-"
        /\ ValidDate(ParseNat(SubSeq(ret.val, 1, 4)),
                     ParseNat(SubSeq(ret.val, 6, 7)),
                     ParseNat(SubSeq(ret.val, 9, 10)))

\* The name of the file the loop of process_ons_files handled last.
LastSeries == ons_files[idx - 1][2]

(***************************************************************************)
(* C19: clean_ons_timeseries never raises: an error while it reads or      *)
(* cleans a file makes it return None; process_ons_files then leaves that  *)
(* series out of its result and goes on to the next file, so that it       *)
(* returns only after the last file of its list.                           *)
(***************************************************************************)
C19_ErrorsSkipTheSeries ==
    /\ fpc # "crashed"
    /\ cleaned.kind # "raise"
    /\ (idx > 1 /\ cleaned = NoDf) => LastSeries \notin DOMAIN processed_dfs
    /\ fpc # "files" => idx = FilesProcessed + 1

\* The first file had a row that made the conversion of its dates raise:
\* None was returned, nothing was kept, and the loop is at the second file.
C19_Witness ==
    /\ fpc = "files"
    /\ idx = 2
    /\ \E i \in DOMAIN raw : raw[i].date = "abc JAN"
    /\ cleaned = NoDf
    /\ processed_dfs = <<>>

(***************************************************************************)
(* calculate_performance of the FTSE analysis script                       *)
(* (projects/ftse-analysis/src/02_analysis.py).  A row of the raw stock    *)
(* data is [Ticker, Date, Close]: the Date a day number, the Close a       *)
(* price in pence.  Of the dictionary of one stock the model keeps the     *)
(* ticker, the current price and the five returns; a return, a float in    *)
(* the code, is kept in hundredths of a percent.                           *)
(***************************************************************************)
MaxPerfTickers == 2

\* df['Ticker'].unique(): the tickers in the order of their first row.  A
\* row that follows a row of its own ticker is no first row.
UniqueTickers(df) ==
    LET firsts == {i \in DOMAIN df :
                      \/ i = 1
                      \/ /\ df[i - 1].Ticker # df[i].Ticker
                         /\ \A j \in 1..(i - 1) : df[j].Ticker # df[i].Ticker}
    IN  [n \in 1..Cardinality(firsts) |->
            df[CHOOSE f \in firsts :
                   Cardinality({g \in firsts : g < f}) = n - 1].Ticker]

\* rows.sort_values('Date'): the rows in the order of their dates, rows of
\* one date in the order they had.  Rows that are in that order already
\* stay as they are, rows in strictly falling order are reversed, and any
\* other row goes to the place that the number of rows before it gives.
SortValuesDate(rows) ==
    LET n == Len(rows)
        place(j) ==
            Cardinality({k \in 1..n :
                            \/ rows[k].Date < rows[j].Date
                            \/ rows[k].Date = rows[j].Date /\ k < j}) + 1
    IN  IF \A i \in 1..(n - 1) : rows[i].Date <= rows[i + 1].Date
        THEN rows
        ELSE IF \A i \in 1..(n - 1) : rows[i].Date > rows[i + 1].Date
        THEN [i \in 1..n |-> rows[n + 1 - i]]
        ELSE [i \in 1..n |-> rows[CHOOSE j \in 1..n : place(j) = i]]

\* stock_data = df[df['Ticker'] == ticker].sort_values('Date')
StockData(df, ticker) ==
    SortValuesDate(SelectSeq(df, LAMBDA r : r.Ticker = ticker))

\* A look-back that is one record too far.
LookBackOneMore(stock_data, k) ==
    IF Len(stock_data) > k
    THEN stock_data[Len(stock_data) - k]
    ELSE stock_data[1]

\* stock_data.iloc[-k] if len(stock_data) > k else earliest
LookBack(stock_data, k) ==
    IF Len(stock_data) > k
    THEN stock_data[Len(stock_data) - k + 1]
    ELSE stock_data[1]

\* ((latest / base) - 1) * 100, in hundredths of a percent, rounded down.
ReturnPct(latest, base) == ((latest * 10000) \div base) - 10000

\* The dictionary perf of one stock.
PerfOf(ticker, stock_data) ==
    LET latest == stock_data[Len(stock_data)]
        earliest == stock_data[1]
        one_month == LookBack(stock_data, 22)
        three_month == LookBack(stock_data, 64)
        six_month == LookBack(stock_data, 127)
        one_year == LookBack(stock_data, 253)
    IN  [Ticker |-> ticker,
         Current_Price |-> latest.Close,
         Return_1M |-> ReturnPct(latest.Close, one_month.Close),
         Return_3M |-> ReturnPct(latest.Close, three_month.Close),
         Return_6M |-> ReturnPct(latest.Close, six_month.Close),
         Return_1Y |-> ReturnPct(latest.Close, one_year.Close),
         Return_Total |-> ReturnPct(latest.Close, earliest.Close)]

(***************************************************************************)
(* The raw stock data of the model: the rows of up to MaxPerfTickers       *)
(* tickers, one ticker after the other, each with a number of records at   *)
(* either side of a limit of the code, one record per trading day, the     *)
(* price rising by a penny a day; the file is in the order of the dates    *)
(* or in the opposite order.                                               *)
(***************************************************************************)
RecordCounts == {49, 50, 64, 65, 127, 128, 253, 254}

StockRows(t, n, order) ==
    [i \in 1..n |->
        LET d == IF order = "asc" THEN i ELSE n + 1 - i
        IN  [Ticker |-> FTSE_100_TICKERS[t],
             Date |-> d,
             Close |-> 100 * t + d]]

RECURSIVE StockTables(_, _)
StockTables(k, order) ==
    IF k = 0 THEN {<<>>}
    ELSE {rows \o StockRows(k, n, order) :
             rows \in StockTables(k - 1, order), n \in RecordCounts}

\* main(): perf_df = calculate_performance(df)
PerfInit ==
    /\ \E k \in 1..MaxPerfTickers, order \in {"asc", "desc"} :
           sdf \in StockTables(k, order)
    /\ pending = UniqueTickers(sdf)
    /\ performance = <<>>
    /\ ppc = "loop"
    /\ ParseIdle
    /\ CleanIdle
    /\ MainIdle
    /\ FetchIdle
    /\ LoadIdle
    /\ HouseIdle
    /\ DashIdle
    /\ PipeIdle
    /\ DlIdle
    /\ RerunIdle
    /\ DeriveIdle

notPerfVars ==
    <<parseVars, cleanVars, mainVars, fetchVars, loadVars, houseVars, dashVars,
      pipeVars, dlVars, rerunVars, deriveVars>>

\* One pass of the loop for a ticker with fewer than 50 records: continue.
PerfSkipTicker ==
    /\ ppc = "loop"
    /\ pending # <<>>
    /\ Len(StockData(sdf, Head(pending))) < 50
    /\ pending' = Tail(pending)
    /\ UNCHANGED <<ppc, sdf, performance>>
    /\ UNCHANGED notPerfVars

\* One pass of the loop for a ticker with 50 records or more.
PerfAppendTicker ==
    /\ ppc = "loop"
    /\ pending # <<>>
    /\ LET stock_data == StockData(sdf, Head(pending))
       IN  /\ ~(Len(stock_data) < 50)
           /\ performance' =
                  Append(performance, PerfOf(Head(pending), stock_data))
    /\ pending' = Tail(pending)
    /\ UNCHANGED <<ppc, sdf>>
    /\ UNCHANGED notPerfVars

\* perf_df = pd.DataFrame(performance); return perf_df
PerfReturn ==
    /\ ppc = "loop"
    /\ pending = <<>>
    /\ ppc' = "returned"
    /\ UNCHANGED <<sdf, pending, performance>>
    /\ UNCHANGED notPerfVars

PerfNext ==
    \/ PerfSkipTicker
    \/ PerfAppendTicker
    \/ PerfReturn

SpecPerf == PerfInit /\ [][PerfNext]_vars

(***************************************************************************)
(* C22: calculate_performance emits a row for a ticker if and only if the  *)
(* ticker has at least 50 records; each look-back return (1M, 3M, 6M, 1Y)  *)
(* is measured against the record 21, 63, 126 or 252 positions before the  *)
(* latest one when the ticker has more than 22, 64, 127 or 253 records,    *)
(* and against the earliest record otherwise, so for a ticker with at      *)
(* most 253 records Return_1Y equals Return_Total.  The positions are      *)
(* those of the ticker's records in the order of their dates.              *)
(***************************************************************************)
\* The tickers the loop has dealt with.
TickersDone ==
    {sdf[i].Ticker : i \in DOMAIN sdf} \ {pending[i] : i \in DOMAIN pending}

\* The records of one ticker, which recs holds in the order of their dates.
InDateOrder(recs, ticker) ==
    /\ \A i \in 1..(Len(recs) - 1) : recs[i].Date <= recs[i + 1].Date
    /\ Len(recs) = Cardinality({i \in DOMAIN sdf : sdf[i].Ticker = ticker})
    /\ {recs[i] : i \in DOMAIN recs} =
           {sdf[i] : i \in {j \in DOMAIN sdf : sdf[j].Ticker = ticker}}

\* The return against the record back positions before the latest one when
\* there are more than limit records, against the earliest one otherwise.
ReturnAgainst(recs, back, limit) ==
    LET n == Len(recs)
        base == IF n > limit THEN recs[n - back] ELSE recs[1]
    IN  ReturnPct(recs[n].Close, base.Close)

C22_LookBackReturns ==
    \A ticker \in TickersDone :
        LET recs == StockData(sdf, ticker)
            rows == {i \in DOMAIN performance :
                        performance[i].Ticker = ticker}
        IN  /\ InDateOrder(recs, ticker)
            /\ Cardinality(rows) = (IF Len(recs) >= 50 THEN 1 ELSE 0)
            /\ \A i \in rows :
                  /\ performance[i].Return_1M = ReturnAgainst(recs, 21, 22)
                  /\ performance[i].Return_3M = ReturnAgainst(recs, 63, 64)
                  /\ performance[i].Return_6M = ReturnAgainst(recs, 126, 127)
                  /\ performance[i].Return_1Y = ReturnAgainst(recs, 252, 253)
                  /\ Len(recs) <= 253 =>
                         performance[i].Return_1Y =
                             performance[i].Return_Total

\* calculate_performance returned: a ticker of 49 records has no row, and
\* the row of a ticker of 254 records has a Return_1Y that is measured
\* against the second record and differs from Return_Total.
C22_Witness ==
    /\ ppc = "returned"
    /\ \E ticker \in TickersDone :
           /\ Len(StockData(sdf, ticker)) = 49
           /\ \A i \in DOMAIN performance : performance[i].Ticker # ticker
    /\ \E i \in DOMAIN performance :
           LET recs == StockData(sdf, performance[i].Ticker)
           IN  /\ Len(recs) = 254
               /\ performance[i].Return_1Y =
                      ReturnPct(recs[254].Close, recs[2].Close)
               /\ performance[i].Return_1Y # performance[i].Return_Total

\* calculate_performance returned the row of a ticker of 253 records in a
\* file that is in falling order of the dates: its Return_1Y is its
\* Return_Total.
C22_WitnessEarliest ==
    /\ ppc = "returned"
    /\ sdf # <<>>
    /\ sdf[1].Date > 1
    /\ \E i \in DOMAIN performance :
           /\ Len(StockData(sdf, performance[i].Ticker)) = 253
           /\ performance[i].Return_1Y = performance[i].Return_Total

(***************************************************************************)
(* The housing download script over its runs                               *)
(* (projects/uk-housing-market/src/01_download_data.py): download_file,    *)
(* download_all_years and the steps 3 and 4 of main().                     *)
(***************************************************************************)
MaxRuns == 2

notDlVars ==
    <<parseVars, cleanVars, mainVars, fetchVars, loadVars, houseVars, dashVars,
      perfVars, pipeVars, rerunVars, deriveVars>>

\* The first run starts after create_directories() made an empty data/raw.
DlInit ==
    /\ disk = [y \in {years_to_download[i] : i \in DOMAIN years_to_download}
                  |-> "absent"]
    /\ dpc = "download"
    /\ dpos = 1
    /\ downloaded_files = <<>>
    /\ passed_on = {}
    /\ runs = 1
    /\ ParseIdle
    /\ CleanIdle
    /\ MainIdle
    /\ FetchIdle
    /\ LoadIdle
    /\ HouseIdle
    /\ DashIdle
    /\ PerfIdle
    /\ PipeIdle
    /\ RerunIdle
    /\ DeriveIdle

DlInLoop == dpc = "download" /\ dpos <= Len(years_to_download)

\* os.path.exists(filepath)
ExistsOnDisk(file) == file # "absent"

\* download_file, lines 86-88: the file exists and its path is returned.
DlAlreadyExists ==
    /\ DlInLoop
    /\ ExistsOnDisk(disk[years_to_download[dpos]])
    /\ downloaded_files' =
           Append(downloaded_files,
                  [year |-> years_to_download[dpos], how |-> "exists"])
    /\ dpos' = dpos + 1
    /\ UNCHANGED <<disk, dpc, passed_on, runs>>
    /\ UNCHANGED notDlVars

\* download_file, lines 90-108: the request succeeds, every chunk is
\* written and the path is returned.  open(filepath, 'wb') replaces what
\* was on disk.
DlCompletes ==
    /\ DlInLoop
    /\ ~ExistsOnDisk(disk[years_to_download[dpos]])
    /\ disk' = [disk EXCEPT ![years_to_download[dpos]] = "complete"]
    /\ downloaded_files' =
           Append(downloaded_files,
                  [year |-> years_to_download[dpos], how |-> "downloaded"])
    /\ dpos' = dpos + 1
    /\ UNCHANGED <<dpc, passed_on, runs>>
    /\ UNCHANGED notDlVars

\* download_file, lines 93-94 and 110-112: requests.get or raise_for_status
\* raises before the file is opened; None is returned.
DlRequestFails ==
    /\ DlInLoop
    /\ ~ExistsOnDisk(disk[years_to_download[dpos]])
    /\ dpos' = dpos + 1
    /\ UNCHANGED <<disk, dpc, downloaded_files, passed_on, runs>>
    /\ UNCHANGED notDlVars

\* download_file, lines 98-101 and 110-112: the file is opened for writing
\* and iter_content raises a RequestException before the last chunk; the
\* with statement closes the file, None is returned, the file stays.
DlFailsPartWay ==
    /\ DlInLoop
    /\ ~ExistsOnDisk(disk[years_to_download[dpos]])
    /\ disk' = [disk EXCEPT ![years_to_download[dpos]] = "partial"]
    /\ dpos' = dpos + 1
    /\ UNCHANGED <<dpc, downloaded_files, passed_on, runs>>
    /\ UNCHANGED notDlVars

\* download_file, lines 98-101: f.write raises an OSError, which is no
\* RequestException and leaves main(); the file stays.
DlWriteError ==
    /\ DlInLoop
    /\ ~ExistsOnDisk(disk[years_to_download[dpos]])
    /\ disk' = [disk EXCEPT ![years_to_download[dpos]] = "partial"]
    /\ dpc' = "crashed"
    /\ UNCHANGED <<dpos, downloaded_files, passed_on, runs>>
    /\ UNCHANGED notDlVars

\* download_all_years returns the list (line 132).
DlLoopDone ==
    /\ dpc = "download"
    /\ dpos > Len(years_to_download)
    /\ dpc' = "filter"
    /\ UNCHANGED <<disk, dpos, downloaded_files, passed_on, runs>>
    /\ UNCHANGED notDlVars

\* main(), lines 221-235: the preview of downloaded[0] and
\* filter_london_data of every file of the list.  pd.read_csv of a file
\* that is not whole may read the rows that are there or raise.
DlPreviewAndFilter ==
    /\ dpc = "filter"
    /\ passed_on' =
           passed_on \cup
           {[run |-> runs,
             year |-> downloaded_files[i].year,
             how |-> downloaded_files[i].how,
             file |-> disk[downloaded_files[i].year]] :
                i \in DOMAIN downloaded_files}
    /\ \/ dpc' = "done"
       \/ /\ \E i \in DOMAIN downloaded_files :
                 disk[downloaded_files[i].year] = "partial"
          /\ dpc' = "crashed"
    /\ UNCHANGED <<disk, dpos, downloaded_files, runs>>
    /\ UNCHANGED notDlVars

\* The script is run again.
DlRunAgain ==
    /\ dpc \in {"done", "crashed"}
    /\ runs < MaxRuns
    /\ runs' = runs + 1
    /\ dpc' = "download"
    /\ dpos' = 1
    /\ downloaded_files' = <<>>
    /\ UNCHANGED <<disk, passed_on>>
    /\ UNCHANGED notDlVars

DlNext ==
    \/ DlAlreadyExists
    \/ DlCompletes
    \/ DlRequestFails
    \/ DlFailsPartWay
    \/ DlWriteError
    \/ DlLoopDone
    \/ DlPreviewAndFilter
    \/ DlRunAgain

SpecDl == DlInit /\ [][DlNext]_vars

(***************************************************************************)
(* C25: in the housing download script a yearly file is present in         *)
(* data/raw only if its download completed: over any sequence of runs, a   *)
(* download that fails part-way never leaves a file that a later run       *)
(* skips as already existing and passes on to the preview and the London   *)
(* filter.  Stated on the files passed on: a file that a run found on     *)
(* disk and passed on is a file whose download completed.                  *)
(***************************************************************************)
C25_SkippedFilesAreComplete ==
    \A f \in passed_on : f.how = "exists" => f.file = "complete"

(***************************************************************************)
(* The housing cleaning script over its runs                               *)
(* (projects/uk-housing-market/src/02_data_cleaning.py): load_london_data, *)
(* clean_data and save_cleaned_csv on one directory data/processed.        *)
(***************************************************************************)
MaxCleanRuns == 2

StartsWith(s, prefix) ==
    Len(s) >= Len(prefix) /\ SubSeq(s, 1, Len(prefix)) = prefix

EndsWith(s, suffix) ==
    Len(s) >= Len(suffix)
    /\ SubSeq(s, Len(s) - Len(suffix) + 1, Len(s)) = suffix

\* A selection of the input files by "london" and ".csv".
IsLondonFileLoose(filename) ==
    StartsWith(filename, "london") /\ EndsWith(filename, ".csv")

\* line 82: filename.startswith("london-pp-") and filename.endswith(".csv")
IsLondonFile(filename) ==
    StartsWith(filename, "london-pp-") /\ EndsWith(filename, ".csv")

\* line 271: the name of the file save_cleaned_csv writes.
CleanedCsvName == "london_housing_cleaned.csv"

\* The row of the cleaned CSV as pd.read_csv gives it back: the date a
\* string again (the derived columns are left out).
CsvRow(r) ==
    [transaction_id |-> r.transaction_id,
     price |-> r.price,
     date_of_transfer |->
         Str(Pad(r.date_of_transfer.y, 4) \o "-" \o
             Pad(r.date_of_transfer.m, 2) \o "-" \o
             Pad(r.date_of_transfer.d, 2)),
     postcode |-> r.postcode,
     district |-> r.district,
     property_type |-> r.property_type]

\* The rows of the files of the model: two yearly London files that have
\* a transaction in common, with two prices, and a sale below the limit.
FileRows(filename, cleanedRows) ==
    CASE filename = "london-pp-2024.csv" ->
             <<PlainSale("{A}"), [PlainSale("{B}") EXCEPT !.price = Num(9999)]>>
      [] filename = "london-pp-2023.csv" ->
             <<[PlainSale("{A}") EXCEPT !.price = Num(300000)],
               [PlainSale("{C}") EXCEPT !.district = Str("camden")]>>
      [] filename = CleanedCsvName ->
             [i \in DOMAIN cleanedRows |-> CsvRow(cleanedRows[i])]
      [] OTHER -> <<>>

\* pd.concat(all_data, ignore_index=True)
RECURSIVE ConcatFiles(_, _)
ConcatFiles(filenames, cleanedRows) ==
    IF filenames = <<>> THEN <<>>
    ELSE FileRows(Head(filenames), cleanedRows)
         \o ConcatFiles(Tail(filenames), cleanedRows)

\* clean_data(df), from its first statement to its return.
CleanData(df) ==
    AddDerived(StandardiseDistrict(RemoveOutliers(DropNaEssential(
        ConvertDate(DropDuplicates(df))))))

\* The names that may be in data/processed, and the listings of the model:
\* some of the names, in any order.
DirNames ==
    {"london-pp-2024.csv", "london-pp-2023.csv", "london-pp-2022.csv.bak",
     "summary.csv", CleanedCsvName}

RECURSIVE DirLists(_)
DirLists(n) ==
    IF n = 0 THEN {<<>>}
    ELSE LET shorter == DirLists(n - 1)
         IN  shorter \cup
             {Append(q, f) :
                 q \in {l \in shorter : Len(l) = n - 1},
                 f \in DirNames}

NoRepeat(q) == \A i, j \in DOMAIN q : q[i] = q[j] => i = j

notRerunVars ==
    <<parseVars, cleanVars, mainVars, fetchVars, loadVars, houseVars, dashVars,
      perfVars, pipeVars, dlVars, deriveVars>>

\* The first run of the script on some directory.
RerunInit ==
    /\ pdir \in {q \in DirLists(Cardinality(DirNames)) : NoRepeat(q)}
    /\ ksaved = <<>>
    /\ kpc = "load"
    /\ kfiles = <<>>
    /\ kdf = <<>>
    /\ history = <<>>
    /\ kruns = 1
    /\ ParseIdle
    /\ CleanIdle
    /\ MainIdle
    /\ FetchIdle
    /\ LoadIdle
    /\ HouseIdle
    /\ DashIdle
    /\ PerfIdle
    /\ PipeIdle
    /\ DlIdle
    /\ DeriveIdle

\* Step 1, load_london_data with a London file in the directory.
KLoad ==
    /\ kpc = "load"
    /\ SelectSeq(pdir, IsLondonFile) # <<>>
    /\ kfiles' = SelectSeq(pdir, IsLondonFile)
    /\ kdf' = ConcatFiles(kfiles', ksaved)
    /\ kpc' = "clean"
    /\ UNCHANGED <<pdir, ksaved, history, kruns>>
    /\ UNCHANGED notRerunVars

\* Step 1, load_london_data without one: FileNotFoundError (lines 89-90).
KLoadNothing ==
    /\ kpc = "load"
    /\ SelectSeq(pdir, IsLondonFile) = <<>>
    /\ kpc' = "crashed"
    /\ UNCHANGED <<pdir, ksaved, kfiles, kdf, history, kruns>>
    /\ UNCHANGED notRerunVars

\* Steps 2 to 5: clean_data; the statistics, the aggregates and the
\* database (data/housing_market.db) leave data/processed alone.
KClean ==
    /\ kpc = "clean"
    /\ kdf' = CleanData(kdf)
    /\ kpc' = "save"
    /\ UNCHANGED <<pdir, ksaved, kfiles, history, kruns>>
    /\ UNCHANGED notRerunVars

\* Step 6, save_cleaned_csv: the file is written; a new name comes into
\* the listing at some place, the other names keep their order.
KSave ==
    /\ kpc = "save"
    /\ ksaved' = kdf
    /\ IF \E i \in DOMAIN pdir : pdir[i] = CleanedCsvName
       THEN pdir' = pdir
       ELSE \E k \in 0..Len(pdir) :
                pdir' = SubSeq(pdir, 1, k) \o <<CleanedCsvName>>
                        \o SubSeq(pdir, k + 1, Len(pdir))
    /\ history' = Append(history, [files |-> kfiles, rows |-> kdf])
    /\ kpc' = "done"
    /\ UNCHANGED <<kfiles, kdf, kruns>>
    /\ UNCHANGED notRerunVars

\* The script is run again on the directory as the last run left it.
KRunAgain ==
    /\ kpc \in {"done", "crashed"}
    /\ kruns < MaxCleanRuns
    /\ kruns' = kruns + 1
    /\ kpc' = "load"
    /\ kfiles' = <<>>
    /\ kdf' = <<>>
    /\ UNCHANGED <<pdir, ksaved, history>>
    /\ UNCHANGED notRerunVars

RerunNext ==
    \/ KLoad
    \/ KLoadNothing
    \/ KClean
    \/ KSave
    \/ KRunAgain

SpecRerun == RerunInit /\ [][RerunNext]_vars

(***************************************************************************)
(* C26: re-running the housing cleaning script on an otherwise unchanged   *)
(* processed directory loads the same input files as the first run: the    *)
(* cleaned CSV it writes into that directory is never selected by          *)
(* load_london_data, so a later run produces the same cleaned rows as the  *)
(* first.                                                                  *)
(***************************************************************************)
C26_RerunLoadsTheSameFiles ==
    /\ \A i \in DOMAIN kfiles : kfiles[i] # CleanedCsvName
    /\ \A i \in DOMAIN history :
          /\ history[i].files = history[1].files
          /\ history[i].rows = history[1].rows
    /\ (history # <<>> /\ kpc \in {"clean", "save", "done"}) =>
          kfiles = history[1].files
    /\ (history # <<>> /\ kpc \in {"save", "done"}) =>
          kdf = history[1].rows

\* The second run saved its CSV: the first run had written the cleaned CSV
\* into a directory that did not have it, between the two London files,
\* and both runs loaded the two London files and returned two rows.
C26_Witness ==
    /\ kruns = 2
    /\ kpc = "done"
    /\ Len(history) = 2
    /\ Len(history[2].files) = 2
    /\ Len(history[2].rows) = 2
    /\ \E i \in DOMAIN pdir :
           /\ pdir[i] = CleanedCsvName
           /\ \E j, k \in DOMAIN pdir :
                  j < i /\ i < k /\ IsLondonFile(pdir[j]) /\ IsLondonFile(pdir[k])

(***************************************************************************)
(* A call of calculate_derived_metrics on its own                          *)
(* (projects/cost-of-living/src/02_data_cleaning.py, lines 255-309), on a  *)
(* master table of up to MaxRateRows months whose cpi_annual is missing    *)
(* or a rate at a limit of a band, a tenth below it or a tenth above it.   *)
(***************************************************************************)
MaxRateRows == 2

\* Rates in tenths of a percent.
RateValues ==
    {NaN} \cup {Num(n) : n \in {-1, 0, 1, 9, 10, 11, 19, 20, 21, 29, 30, 31,
                                49, 50, 51, 99, 100, 101}}

RateRow(m, rate) ==
    [date |-> Ts(2023, m, 1), year |-> 2023, month |-> m,
     cols |-> [c \in {"cpi_annual"} |-> rate]]

RECURSIVE RateTables(_)
RateTables(n) ==
    IF n = 0 THEN {<<>>}
    ELSE LET shorter == RateTables(n - 1)
         IN  shorter \cup
             {Append(rows, RateRow(n, rate)) :
                 rows \in {q \in shorter : Len(q) = n - 1},
                 rate \in RateValues}

notDeriveVars ==
    <<parseVars, cleanVars, mainVars, fetchVars, loadVars, houseVars, dashVars,
      perfVars, pipeVars, dlVars, rerunVars>>

\* main(), step 5: calculate_derived_metrics(master_cpi) is called.
DeriveInit ==
    /\ mdf \in {NoDf} \cup {Df(rows) : rows \in RateTables(MaxRateRows)}
    /\ mpc = "called"
    /\ ParseIdle
    /\ CleanIdle
    /\ MainIdle
    /\ FetchIdle
    /\ LoadIdle
    /\ HouseIdle
    /\ DashIdle
    /\ PerfIdle
    /\ PipeIdle
    /\ DlIdle
    /\ RerunIdle

\* Lines 261-262: df is None or has no rows, and is returned as it is.
DeriveNothing ==
    /\ mpc = "called"
    /\ mdf.kind # "df" \/ Len(mdf.rows) = 0
    /\ mpc' = "returned"
    /\ UNCHANGED mdf
    /\ UNCHANGED notDeriveVars

\* Lines 264-309: the body of calculate_derived_metrics, to its return.
DeriveReturn ==
    /\ mpc = "called"
    /\ ~(mdf.kind # "df" \/ Len(mdf.rows) = 0)
    /\ mdf' = CalculateDerivedMetrics(mdf)
    /\ mpc' = "returned"
    /\ UNCHANGED notDeriveVars

DeriveNext ==
    \/ DeriveNothing
    \/ DeriveReturn

SpecDerive == DeriveInit /\ [][DeriveNext]_vars

(***************************************************************************)
(* C28: classify_inflation gives every rate exactly one regime, with the   *)
(* half-open bands [..,0) Deflation, [0,1) Very Low, [1,2) Below Target,   *)
(* [2,3) On Target, [3,5) Elevated, [5,10) High, [10,..) Very High, and a  *)
(* missing rate Unknown; the regime does not go down when the rate goes    *)
(* up; and it agrees with the target flag: above_target (rate > 2.0) is    *)
(* true only for rows whose regime is On Target or higher, and             *)
(* deviation_from_target is positive exactly when above_target is true.    *)
(***************************************************************************)
\* The regimes from the lowest to the highest, each with the limits of its
\* band in tenths of a percent: from lo, lo included, up to hi, hi not
\* included; a band without a limit has none.
RegimeBands ==
    << [name |-> "Deflation", haslo |-> FALSE, lo |-> 0, hashi |-> TRUE, hi |-> 0],
       [name |-> "Very Low", haslo |-> TRUE, lo |-> 0, hashi |-> TRUE, hi |-> 10],
       [name |-> "Below Target", haslo |-> TRUE, lo |-> 10, hashi |-> TRUE, hi |-> 20],
       [name |-> "On Target", haslo |-> TRUE, lo |-> 20, hashi |-> TRUE, hi |-> 30],
       [name |-> "Elevated", haslo |-> TRUE, lo |-> 30, hashi |-> TRUE, hi |-> 50],
       [name |-> "High", haslo |-> TRUE, lo |-> 50, hashi |-> TRUE, hi |-> 100],
       [name |-> "Very High", haslo |-> TRUE, lo |-> 100, hashi |-> FALSE, hi |-> 0] >>

InBand(n, band) ==
    /\ band.haslo => n >= band.lo
    /\ band.hashi => n < band.hi

\* The place of a regime among the bands; 0 for Unknown.
RegimeRank(name) ==
    IF \E k \in DOMAIN RegimeBands : RegimeBands[k].name = name
    THEN CHOOSE k \in DOMAIN RegimeBands : RegimeBands[k].name = name
    ELSE 0

C28_RegimeAgreesWithTarget ==
    mpc = "returned" =>
        \A i \in DOMAIN mdf.rows :
            LET row == mdf.rows[i].cols
                rate == row["cpi_annual"]
                rank == RegimeRank(row["inflation_regime"])
            IN  /\ rate.nan <=> row["inflation_regime"] = "Unknown"
                /\ ~rate.nan =>
                      /\ rank > 0
                      /\ \A k \in DOMAIN RegimeBands :
                             InBand(rate.num, RegimeBands[k]) <=> k = rank
                /\ \A j \in DOMAIN mdf.rows :
                      LET other == mdf.rows[j].cols
                      IN  (~rate.nan /\ ~other["cpi_annual"].nan
                           /\ rate.num <= other["cpi_annual"].num) =>
                              rank <= RegimeRank(other["inflation_regime"])
                /\ row["above_target"] => rank >= RegimeRank("On Target")
                /\ row["above_target"] <=>
                      (~row["deviation_from_target"].nan
                       /\ row["deviation_from_target"].num > 0)

\* calculate_derived_metrics returned a row of 2.0 percent, On Target and
\* not above the target, and a row of 2.1 percent, On Target and above it.
C28_Witness ==
    /\ mpc = "returned"
    /\ \E i, j \in DOMAIN mdf.rows :
           /\ mdf.rows[i].cols["cpi_annual"] = Num(20)
           /\ mdf.rows[i].cols["inflation_regime"] = "On Target"
           /\ ~mdf.rows[i].cols["above_target"]
           /\ mdf.rows[i].cols["deviation_from_target"] = Num(0)
           /\ mdf.rows[j].cols["cpi_annual"] = Num(21)
           /\ mdf.rows[j].cols["inflation_regime"] = "On Target"
           /\ mdf.rows[j].cols["above_target"]

\* It returned a row without a rate: Unknown, not above the target, and a
\* deviation that is missing.
C28_WitnessUnknown ==
    /\ mpc = "returned"
    /\ \E i \in DOMAIN mdf.rows :
           /\ mdf.rows[i].cols["cpi_annual"] = NaN
           /\ mdf.rows[i].cols["inflation_regime"] = "Unknown"
           /\ ~mdf.rows[i].cols["above_target"]
           /\ mdf.rows[i].cols["deviation_from_target"] = NaN

====
